---- MODULE Spec2Model ----
(***************************************************************************)
(* A model of the maze engine of kivhift/mazes: the occupancy Mask and its *)
(* run-length codec (maze/grid.py), the Cell/Grid lattice (maze/grid.py)   *)
(* and the maze generators (maze/algorithm.py).                            *)
(*                                                                         *)
(* Python values are modelled as follows.  None is the empty tuple; a     *)
(* list (a mask, a row) and a cell are non-empty tuples and are compared   *)
(* with None directly, while an int or a bool that may be None is wrapped  *)
(* as Some(v) = <<v>>.  A Python list is a sequence; the Python index i is *)
(* the TLA+ index i + 1.  A text is a sequence of one-character strings.   *)
(* A Cell is identified by its <<row, column>> pair (0-based, as in the    *)
(* source).  random.choice and random.randint are nondeterministic.        *)
(***************************************************************************)
EXTENDS Integers, Sequences, FiniteSets, TLC

VARIABLES
    mask,     \* the Mask under test / the mask a MaskedGrid was built from
    op,       \* the last Mask call: its name, arguments and the mask before it
    ret,      \* what the last call returned or raised
    rle,      \* the text handed to Mask.from_RLE
    pos,      \* number of characters of rle the decoder loop has consumed
    s,        \* the decoder's _state object
    dstat,    \* where the decoder is: "idle", "run", "done" or "error"
    grid,     \* Grid._grid: rows of cells, a slot being a cell or None
    nbr,      \* each cell's _neighbors list <<N, E, S, W>>
    links,    \* each cell's _links set
    algo,     \* the generator that was called on the grid
    pc,       \* where that generator is
    loc       \* the generator's local variables

vars == <<mask, op, ret, rle, pos, s, dstat, grid, nbr, links, algo, pc, loc>>

maskVars == <<mask, op, ret, rle, pos, s, dstat>>
gridVars == <<grid, nbr, links, algo, pc, loc>>

None == <<>>

Some(v) == <<v>>

\* no exception was raised
NoExc == ""

(***************************************************************************)
(* Bounds of the model.                                                    *)
(***************************************************************************)
\* longest text of the exhaustively enumerated decoder inputs
MaxLen == 5
\* largest rows * columns of the masks that are encoded and decoded again
MaxMaskCells == 11
\* most runs of a well-formed run text, and the largest count of one run
MaxRuns == 3
MaxRun == 2
\* largest width and height a well-formed run text declares
MaxDim == 3
\* largest rows * columns of the masks __getitem__ and __setitem__ are called on
MaxOpCells == 4
\* largest rows * columns of the grids the generators are called on
MaxCells == 8
\* largest rows * columns of the grids whose cells the caller links and unlinks
MaxLinkCells == 3
\* largest rows * columns of the plain grids binary_tree alone is called on
MaxTreeCells == 16
\* largest rows * columns of the masked grids aldous_broder and wilsons are
\* called on
MaxWalkCells == 7
\* largest rows * columns of the masked grids hunt_and_kill alone is called on
MaxHuntCells == 8
\* largest rows * columns of the grids any two cells of which are linked before
\* distances are asked
MaxDistCells == 4
\* largest rows * columns of the grids generators are called on and lattice
\* neighbours are linked in before distances are asked
MaxLatticeCells == 6

(***************************************************************************)
(* Characters (string.digits, string.whitespace).                          *)
(***************************************************************************)
digits == <<"0", "1", "2", "3", "4", "5", "6", "7", "8", "9">>

IsDigit(ch) == \E i \in 1..Len(digits) : digits[i] = ch

\* ord(ch) - ord('0')
DigitValue(ch) == (CHOOSE i \in 1..Len(digits) : digits[i] = ch) - 1

\* string.whitespace: space, tab, line feed, carriage return, vertical tab
\* (written as the character itself, chr(11)) and form feed
whitespace == {" ", "\t", "\n", "\r", "", "\f"}

Flatten(rows) ==
    LET RECURSIVE F(_)
        F(i) == IF i > Len(rows) THEN <<>> ELSE rows[i] \o F(i + 1)
    IN F(1)

(***************************************************************************)
(* Mask (grid.py 299-317, 419-434).  _mask is a list of rows of booleans.  *)
(***************************************************************************)
Mask(rows, columns) == [r \in 1..rows |-> [c \in 1..columns |-> TRUE]]

Mask_rows(m) == Len(m)

\* columns reads the first row, self._mask[0]: a mask of no rows has none and
\* the read raises IndexError
Mask_columns_raises(m) == Len(m) = 0

Mask_columns(m) == Len(m[1])

Mask_count(m) == Cardinality({i \in 1..Len(Flatten(m)) : Flatten(m)[i]})

\* Mask.__getitem__: the value returned for index (r, c)
Mask_getitem(m, r, c) ==
    IF r < 0 \/ r >= Mask_rows(m) THEN FALSE
    ELSE IF c < 0 \/ c >= Mask_columns(m) THEN FALSE
    ELSE m[r + 1][c + 1]

\* Mask.__setitem__ without its two tests for a negative index: the list
\* index of Python then counts from the end
Mask_setitem_wraps(m, r, c, is_on) ==
    LET rr == IF r < 0 THEN Mask_rows(m) + r ELSE r
        cc == IF c < 0 THEN Mask_columns(m) + c ELSE c
    IN  IF r >= Mask_rows(m) \/ rr < 0 THEN [mask |-> m, exc |-> "IndexError"]
        ELSE IF c >= Mask_columns(m) \/ cc < 0 THEN [mask |-> m, exc |-> "IndexError"]
        ELSE [mask |-> [m EXCEPT ![rr + 1][cc + 1] = is_on], exc |-> NoExc]

\* Mask.__setitem__: the mask afterwards and the exception raised, if any
Mask_setitem(m, r, c, is_on) ==
    IF r < 0 \/ r >= Mask_rows(m) THEN [mask |-> m, exc |-> "IndexError"]
    ELSE IF c < 0 \/ c >= Mask_columns(m) THEN [mask |-> m, exc |-> "IndexError"]
    ELSE [mask |-> [m EXCEPT ![r + 1][c + 1] = is_on], exc |-> NoExc]

(***************************************************************************)
(* Mask.from_RLE (grid.py 328-390).  One operator per branch of the loop   *)
(* body; each yields the _state afterwards, how the loop goes on ("next",  *)
(* "break" or "raise") and the exception raised.                           *)
(***************************************************************************)
\* _state.__init__
NewState == [mask |-> None, width |-> None, height |-> None, count |-> 0, index |-> 0]

\* rowcol with the quotient and the remainder the other way round
rowcol_swapped(st) == <<st.index % st.width[1], st.index \div st.width[1]>>

\* _state.rowcol: divmod(self.index, self.width)
rowcol(st) == <<st.index \div st.width[1], st.index % st.width[1]>>

\* the value get_and_reset_count returns (it also sets s.count to 0)
get_and_reset_count(st) == IF st.count > 0 THEN st.count ELSE 1

Goes(st) == [st |-> st, how |-> "next", exc |-> NoExc]

Raises(st, e) == [st |-> st, how |-> "raise", exc |-> e]

Branch_digit(st, ch) == Goes([st EXCEPT !.count = st.count * 10 + DigitValue(ch)])

\* the w branch without its test that the width is still None
Branch_w_again(st) ==
    LET s1 == [st EXCEPT !.width = Some(get_and_reset_count(st)), !.count = 0]
    IN  IF s1.height # None /\ s1.mask = None
        THEN Goes([s1 EXCEPT !.mask = Mask(s1.height[1], s1.width[1])])
        ELSE Goes(s1)

\* the raise formats an undefined name, width, so the error is a NameError
Branch_w(st) ==
    IF st.width = None
    THEN LET w  == get_and_reset_count(st)
             s1 == [st EXCEPT !.width = Some(w), !.count = 0]
         IN  IF s1.height # None /\ s1.mask = None
             THEN Goes([s1 EXCEPT !.mask = Mask(s1.height[1], s1.width[1])])
             ELSE Goes(s1)
    ELSE Raises(st, "NameError")

Branch_h(st) ==
    IF st.height = None
    THEN LET h  == get_and_reset_count(st)
             s1 == [st EXCEPT !.height = Some(h), !.count = 0]
         IN  IF s1.width # None /\ s1.mask = None
             THEN Goes([s1 EXCEPT !.mask = Mask(s1.height[1], s1.width[1])])
             ELSE Goes(s1)
    ELSE Raises(st, "NameError")

Branch_o(st) ==
    IF st.mask = None THEN Raises(st, "ValueError")
    ELSE LET RECURSIVE Off(_, _)
             Off(s1, n) ==
                 IF n = 0 THEN Goes(s1)
                 ELSE LET rc  == rowcol(s1)
                          set == Mask_setitem(s1.mask, rc[1], rc[2], FALSE)
                      IN  IF set.exc # NoExc THEN Raises(s1, set.exc)
                          ELSE Off([s1 EXCEPT !.mask = set.mask,
                                              !.index = s1.index + 1], n - 1)
         IN  Off([st EXCEPT !.count = 0], get_and_reset_count(st))

Branch_dot(st) ==
    Goes([st EXCEPT !.index = st.index + get_and_reset_count(st), !.count = 0])

Branch_dollar(st) ==
    IF st.width = None THEN Raises(st, "ValueError")
    ELSE Goes([st EXCEPT !.index = st.index + (st.width[1] - rowcol(st)[2])])

\* the ! branch going on with the next character
Branch_bang_continue(st) == Goes(st)

Branch_bang(st) == [st |-> st, how |-> "break", exc |-> NoExc]

Branch_else(st) == Raises(st, "ValueError")

\* the body of `for ch in rle`
Body(st, ch) ==
    IF ch \in whitespace THEN Goes(st)
    ELSE IF IsDigit(ch) THEN Branch_digit(st, ch)
    ELSE IF ch = "w" THEN Branch_w(st)
    ELSE IF ch = "h" THEN Branch_h(st)
    ELSE IF ch = "o" THEN Branch_o(st)
    ELSE IF ch = "." THEN Branch_dot(st)
    ELSE IF ch = "$" THEN Branch_dollar(st)
    ELSE IF ch = "!" THEN Branch_bang(st)
    ELSE Branch_else(st)

\* a call's outcome: the value it returned, or the exception it raised
Returned(v) == [kind |-> "return", value |-> Some(v), exc |-> NoExc]

Raised(e) == [kind |-> "raise", value |-> None, exc |-> e]

\* from_RLE as a function of its argument: the mask (or None) it returns, or
\* the exception it raises
from_RLE(text) ==
    LET RECURSIVE Loop(_, _)
        Loop(st, i) ==
            IF i > Len(text) THEN Returned(st.mask)
            ELSE LET b == Body(st, text[i])
                 IN  IF b.how = "raise" THEN Raised(b.exc)
                     ELSE IF b.how = "break" THEN Returned(b.st.mask)
                     ELSE Loop(b.st, i + 1)
    IN Loop(NewState, 1)

(***************************************************************************)
(* Mask.to_RLE (grid.py 392-417).                                          *)
(***************************************************************************)
\* f'{n}' for a non-negative int: its decimal digits
Str(n) ==
    LET RECURSIVE D(_)
        D(k) == IF k < 10 THEN <<digits[k + 1]>>
                ELSE D(k \div 10) \o <<digits[(k % 10) + 1]>>
    IN D(n)

\* the dict ch
RunChar(val) == IF val THEN "." ELSE "o"

\* output_count: what it appends for the run (current, count)
output_count(current, count) ==
    IF count = 1 THEN <<RunChar(current)>>
    ELSE Str(count) \o <<RunChar(current)>>

to_RLE(m) ==
    LET vals == Flatten(m)
        RECURSIVE Each(_, _, _, _)
        Each(i, current, count, out) ==
            IF i > Len(vals)
            THEN IF current # None THEN out \o output_count(current[1], count) ELSE out
            ELSE IF Some(vals[i]) # current
                 THEN Each(i + 1, Some(vals[i]), 1,
                           IF current # None
                           THEN out \o output_count(current[1], count) ELSE out)
                 ELSE Each(i + 1, current, count + 1, out)
    IN Each(1, None, 0, Str(Mask_rows(m)) \o <<"h">> \o Str(Mask_columns(m)) \o <<"w">>)

(***************************************************************************)
(* The inputs of the Mask specifications.                                  *)
(***************************************************************************)
\* the characters of the exhaustively enumerated texts: two digits, every
\* command character, a whitespace character and a character of no meaning
Alphabet == {"0", "2", "w", "h", "o", ".", "$", "!", " ", "x"}

Texts == UNION {[1..k -> Alphabet] : k \in 0..MaxLen}

\* the masks Mask(rows, columns) builds and __setitem__ can turn them into.
\* Mask.__init__ checks nothing: Mask(0, columns) is the empty list of rows
\* (its number of columns is not kept) and Mask(rows, 0) a list of empty rows
MasksOf(cells) ==
    UNION {[1..r -> [1..c -> BOOLEAN]] :
               <<r, c>> \in {d \in (0..cells) \X (0..cells) : d[1] * d[2] <= cells}}

\* the masks MaskedGrid builds a grid from: of a mask of no rows it raises
\* IndexError at mask.columns (grid.py 453); of a mask of rows without columns
\* it builds a grid of empty rows
GridMasks(cells) == {m \in MasksOf(cells) : ~Mask_columns_raises(m)}

\* A well-formed run text: the two declarations, in either order, then runs.
\* A count of 1 is written or left out (explicit); the scenario text of the
\* specification ends with !.
RunForms(maxRun) ==
    {f \in [kind : {"o", "."}, count : 1..maxRun, explicit : BOOLEAN] :
         f.explicit \/ f.count = 1}

RunSeqs(maxRuns, maxRun) == UNION {[1..k -> RunForms(maxRun)] : k \in 0..maxRuns}

Total(runs) ==
    LET RECURSIVE T(_)
        T(i) == IF i > Len(runs) THEN 0 ELSE runs[i].count + T(i + 1)
    IN T(1)

RunInputs ==
    {a \in [w : 1..MaxDim, wx : BOOLEAN, h : 1..MaxDim, hx : BOOLEAN,
            wfirst : BOOLEAN, bang : BOOLEAN, runs : RunSeqs(MaxRuns, MaxRun)] :
         /\ a.wx \/ a.w = 1
         /\ a.hx \/ a.h = 1
         /\ ~a.bang
         /\ Total(a.runs) <= a.w * a.h}

\* the text 2w2h1o3.!
Scenario ==
    [w |-> 2, wx |-> TRUE, h |-> 2, hx |-> TRUE, wfirst |-> TRUE, bang |-> TRUE,
     runs |-> <<[kind |-> "o", count |-> 1, explicit |-> TRUE],
                [kind |-> ".", count |-> 3, explicit |-> TRUE]>>]

Count(n, explicit) == IF explicit THEN Str(n) ELSE <<>>

RunText(a) ==
    LET RECURSIVE R(_)
        R(i) == IF i > Len(a.runs) THEN <<>>
                ELSE Count(a.runs[i].count, a.runs[i].explicit)
                         \o <<a.runs[i].kind>> \o R(i + 1)
        wd == Count(a.w, a.wx) \o <<"w">>
        hd == Count(a.h, a.hx) \o <<"h">>
    IN (IF a.wfirst THEN wd \o hd ELSE hd \o wd) \o R(1)
           \o (IF a.bang THEN <<"!">> ELSE <<>>)

(***************************************************************************)
(* The Mask specifications.  SpecMask starts from a mask and calls         *)
(* __getitem__, __setitem__ and from_RLE(to_RLE()) on it; SpecRLE starts   *)
(* from a text handed to from_RLE.  The decoder runs one iteration of its  *)
(* loop per step.                                                          *)
(***************************************************************************)
NoOp == [name |-> "none", args |-> <<>>, before |-> None]

NoGrid ==
    /\ grid = <<>>
    /\ nbr = <<>>
    /\ links = <<>>
    /\ algo = ""
    /\ pc = ""
    /\ loc = <<>>

InitMask ==
    /\ mask \in MasksOf(MaxMaskCells)
    /\ op = NoOp
    /\ ret = Returned(None)
    /\ rle = <<>>
    /\ pos = 0
    /\ s = NewState
    /\ dstat = "idle"
    /\ NoGrid

InitRLE ==
    /\ mask = None
    /\ \/ /\ rle \in Texts
          /\ op = [name |-> "from_RLE", args |-> <<>>, before |-> None]
       \/ \E a \in RunInputs \cup {Scenario} :
              /\ rle = RunText(a)
              /\ op = [name |-> "runs", args |-> a, before |-> None]
    /\ ret = Returned(None)
    /\ pos = 0
    /\ s = NewState
    /\ dstat = "run"
    /\ NoGrid

\* the indexes __getitem__ and __setitem__ are called with
Indexes(m) ==
    LET columns == IF Mask_columns_raises(m) THEN 0 ELSE Mask_columns(m)
    IN  {rc \in (-2..Mask_rows(m) + 1) \X (-2..columns + 1) : TRUE}

\* value = mask[r, c]
Get(r, c) ==
    /\ dstat = "idle"
    /\ Len(Flatten(mask)) <= MaxOpCells
    /\ op' = [name |-> "get", args |-> <<r, c>>, before |-> mask]
    /\ ret' = Returned(Mask_getitem(mask, r, c))
    /\ UNCHANGED <<mask, rle, pos, s, dstat>>
    /\ UNCHANGED gridVars

\* mask[r, c] = is_on
Set(r, c, is_on) ==
    /\ dstat = "idle"
    /\ Len(Flatten(mask)) <= MaxOpCells
    /\ LET set == Mask_setitem(mask, r, c, is_on)
       IN  /\ mask' = set.mask
           /\ ret' = IF set.exc = NoExc THEN Returned(None) ELSE Raised(set.exc)
    /\ op' = [name |-> "set", args |-> <<r, c, is_on>>, before |-> mask]
    /\ UNCHANGED <<rle, pos, s, dstat>>
    /\ UNCHANGED gridVars

\* Mask.from_RLE(mask.to_RLE()): to_RLE returns and from_RLE is entered, or
\* to_RLE raises at self.columns (grid.py 393) and from_RLE is not called
RoundTrip ==
    /\ dstat = "idle"
    /\ IF Mask_columns_raises(mask)
       THEN /\ dstat' = "error"
            /\ ret' = Raised("IndexError")
            /\ UNCHANGED <<rle, pos, s>>
       ELSE /\ rle' = to_RLE(mask)
            /\ pos' = 0
            /\ s' = NewState
            /\ dstat' = "run"
            /\ UNCHANGED ret
    /\ op' = [name |-> "round_trip", args |-> <<>>, before |-> mask]
    /\ UNCHANGED mask
    /\ UNCHANGED gridVars

\* one iteration of `for ch in rle`
Step ==
    /\ dstat = "run"
    /\ pos < Len(rle)
    /\ LET b == Body(s, rle[pos + 1])
       IN  /\ s' = b.st
           /\ dstat' = CASE b.how = "next" -> "run"
                         [] b.how = "break" -> "done"
                         [] b.how = "raise" -> "error"
           /\ ret' = CASE b.how = "next" -> ret
                       [] b.how = "break" -> Returned(b.st.mask)
                       [] b.how = "raise" -> Raised(b.exc)
    /\ pos' = pos + 1
    /\ UNCHANGED <<mask, op, rle>>
    /\ UNCHANGED gridVars

\* the loop is over: return s.mask
Return ==
    /\ dstat = "run"
    /\ pos = Len(rle)
    /\ dstat' = "done"
    /\ ret' = Returned(s.mask)
    /\ UNCHANGED <<mask, op, rle, pos, s>>
    /\ UNCHANGED gridVars

NextRLE == Step \/ Return

NextMask ==
    \/ \E rc \in Indexes(mask) : Get(rc[1], rc[2])
    \/ \E rc \in Indexes(mask), is_on \in BOOLEAN : Set(rc[1], rc[2], is_on)
    \/ RoundTrip
    \/ Step
    \/ Return

SpecRLE == InitRLE /\ [][NextRLE]_vars

SpecMask == InitMask /\ [][NextMask]_vars

(***************************************************************************)
(* Claims about the Mask and its codec.                                    *)
(***************************************************************************)
InRange(m, r, c) == 0 <= r /\ r < Len(m) /\ 0 <= c /\ c < Len(m[1])

SameMask(a, b) ==
    /\ Len(a) = Len(b)
    /\ \A r \in 1..Len(a) :
           /\ Len(a[r]) = Len(b[r])
           /\ \A c \in 1..Len(a[r]) : a[r][c] = b[r][c]

\* C4: RLE round trip.  For every mask m, of any dimensions Mask(rows,
\* columns) builds (no rows or no columns included) and any on/off pattern,
\* from_RLE(to_RLE(m)) raises nothing and returns a mask with m's number of
\* rows and columns and m's value at every (row, column).
RoundTripReproduces ==
    op.name = "round_trip" =>
        /\ dstat # "error"
        /\ dstat = "done" =>
               /\ ret.kind = "return"
               /\ ret.value[1] # None
               /\ Mask_rows(ret.value[1]) = Mask_rows(op.before)
               /\ Mask_columns(ret.value[1]) = Mask_columns(op.before)
               /\ \A r \in 0..Mask_rows(op.before) - 1,
                     c \in 0..Mask_columns(op.before) - 1 :
                      Mask_getitem(ret.value[1], r, c) = Mask_getitem(op.before, r, c)

\* is position i (0-based, row-major) of the text's cells inside an o run
InOffRun(runs, i) ==
    \E k \in 1..Len(runs) :
        /\ runs[k].kind = "o"
        /\ Total(SubSeq(runs, 1, k - 1)) <= i
        /\ i < Total(SubSeq(runs, 1, k))

\* C5: a text of a width and a height declaration, in either order, then o
\* and . runs whose counts total at most width * height, decodes to a mask of
\* those dimensions whose cell at row-major position i is off exactly when i
\* lies inside an o run; 2w2h1o3.! decodes to [[false, true], [true, true]].
RunsDecode ==
    /\ op.name = "runs" /\ Total(op.args.runs) <= op.args.w * op.args.h =>
           /\ dstat # "error"
           /\ dstat = "done" =>
                  /\ ret.kind = "return"
                  /\ ret.value[1] # None
                  /\ Len(ret.value[1]) = op.args.h
                  /\ \A r \in 1..op.args.h :
                         /\ Len(ret.value[1][r]) = op.args.w
                         /\ \A c \in 1..op.args.w :
                                ret.value[1][r][c] =
                                    ~InOffRun(op.args.runs, (r - 1) * op.args.w + (c - 1))
    /\ rle = <<"2", "w", "2", "h", "1", "o", "3", ".", "!">> /\ dstat = "done" =>
           ret = Returned(<<<<FALSE, TRUE>>, <<TRUE, TRUE>>>>)

\* a text of three runs whose middle run is an o run, over a mask that is not
\* square, has been decoded
RunsDecodeWitness ==
    /\ op.name = "runs"
    /\ dstat = "done"
    /\ op.args.w # op.args.h
    /\ ~op.args.wfirst
    /\ Len(op.args.runs) = 3
    /\ op.args.runs[1].kind = "."
    /\ op.args.runs[2].kind = "o"
    /\ op.args.runs[3].kind = "."

\* the characters of the text before position i
Before(i) == {rle[j] : j \in 1..i - 1}

\* C6: a . read before both width and height have been declared makes the
\* decoding fail, as an o does.
DotBeforeDimensionsFails ==
    \A i \in 1..pos :
        rle[i] = "." /\ ~({"w", "h"} \subseteq Before(i)) => dstat = "error" /\ pos = i

\* the cases C7 lists, told from the text alone
Malformed(i) ==
    \/ rle[i] = "w" /\ "w" \in Before(i)
    \/ rle[i] = "h" /\ "h" \in Before(i)
    \/ rle[i] = "o" /\ ~({"w", "h"} \subseteq Before(i))
    \/ rle[i] = "$" /\ "w" \notin Before(i)
    \/ /\ rle[i] \notin whitespace
       /\ ~IsDigit(rle[i])
       /\ rle[i] \notin {"w", "h", "o", ".", "$", "!"}

\* C7: decoding is fail-fast.  A malformed character the decoder reads is the
\* last one it reads: from_RLE raises there and returns no mask.
FailFast ==
    \A i \in 1..pos :
        Malformed(i) =>
            /\ dstat = "error"
            /\ pos = i
            /\ ret.kind = "raise"
            /\ ret.value = None

\* the decoder has failed on a malformed character after it had allocated
\* the mask and turned a cell off, with characters of the text left unread
FailFastWitness ==
    /\ dstat = "error"
    /\ pos < Len(rle)
    /\ Malformed(pos)
    /\ s.mask # None
    /\ Mask_count(s.mask) < Mask_rows(s.mask) * Mask_columns(s.mask)

Commands == {"w", "h", "o", ".", "$", "!"}

\* the count C8 gives the command character at position i: the number the
\* digits since the previous command character spell, or 1 without a digit
SpelledCount(i) ==
    LET from == IF \E j \in 1..i - 1 : rle[j] \in Commands
                THEN (CHOOSE j \in 1..i - 1 :
                          /\ rle[j] \in Commands
                          /\ \A k \in j + 1..i - 1 : rle[k] \notin Commands) + 1
                ELSE 1
        RECURSIVE V(_, _)
        V(k, n) == IF k >= i THEN n
                   ELSE IF IsDigit(rle[k]) THEN V(k + 1, n * 10 + DigitValue(rle[k]))
                   ELSE V(k + 1, n)
    IN  IF \E k \in from..i - 1 : IsDigit(rle[k]) THEN V(from, 0) ELSE 1

\* C8: every count-taking command character (w, h, o, .) uses the number the
\* digits read since the previous command character (w, h, o, ., $ or !)
\* spell, whitespace ignored, and 1 when no digit was read since.
CountSincePreviousCommand ==
    [][dstat = "run" /\ pos < Len(rle) /\ dstat' # "error" =>
           LET ch == rle[pos + 1]
               n  == SpelledCount(pos + 1)
           IN  /\ ch = "w" => s'.width = Some(n)
               /\ ch = "h" => s'.height = Some(n)
               /\ ch \in {"o", "."} => s'.index = s.index + n]_vars

\* C9: when the decoder reads !, decoding ends at once: ! is the last
\* character read and the mask returned is the one the text before the !
\* decodes to, whatever follows the !.
BangEndsDecoding ==
    \A i \in 1..pos :
        rle[i] = "!" =>
            /\ dstat = "done"
            /\ pos = i
            /\ ret = from_RLE(SubSeq(rle, 1, i - 1))

\* a ! has ended the decoding of a text that had declared its mask, and the
\* character after the ! is one that raises when it is read
BangEndsWitness ==
    /\ dstat = "done"
    /\ pos < Len(rle)
    /\ rle[pos] = "!"
    /\ rle[pos + 1] \in {"x", "w"}
    /\ ret.value[1] # None

\* C10: mask[r, c] is the stored value when 0 <= r < rows and 0 <= c < columns
\* and False, without an error, for every other r and c, negative ones
\* included; mask[r, c] = v outside those bounds raises IndexError and leaves
\* every cell as it was, and inside them changes cell (r, c) alone.
GetSetContract ==
    /\ op.name = "get" =>
           ret = Returned(IF InRange(op.before, op.args[1], op.args[2])
                          THEN op.before[op.args[1] + 1][op.args[2] + 1]
                          ELSE FALSE)
    /\ op.name = "set" =>
           IF InRange(op.before, op.args[1], op.args[2])
           THEN /\ ret.kind = "return"
                /\ Len(mask) = Len(op.before)
                /\ \A r \in 1..Len(mask) :
                       /\ Len(mask[r]) = Len(op.before[r])
                       /\ \A c \in 1..Len(mask[r]) :
                              mask[r][c] = IF r = op.args[1] + 1 /\ c = op.args[2] + 1
                                           THEN op.args[3]
                                           ELSE op.before[r][c]
           ELSE /\ ret = Raised("IndexError")
                /\ SameMask(mask, op.before)

\* a write at a negative column of a mask that holds on and off cells has
\* raised
GetSetWitness ==
    /\ op.name = "set"
    /\ op.args[1] >= 0
    /\ op.args[2] = -1
    /\ ret.kind = "raise"
    /\ Mask_count(mask) >= 1
    /\ Mask_count(mask) < Mask_rows(mask) * Mask_columns(mask)

(***************************************************************************)
(* Cell and Grid (grid.py 45-246, 450-469).  A cell is its <<row, column>>  *)
(* pair; its _neighbors list is nbr[cell] and its _links set links[cell].  *)
(***************************************************************************)
IsCell(x) == x # None

\* Grid._prepare_grid
Grid_prepare_grid(rows, columns) ==
    [r \in 1..rows |-> [c \in 1..columns |-> <<r - 1, c - 1>>]]

\* MaskedGrid._prepare_grid
MaskedGrid_prepare_grid(m, rows, columns) ==
    [r \in 1..rows |->
        [c \in 1..columns |->
            IF Mask_getitem(m, r - 1, c - 1) THEN <<r - 1, c - 1>> ELSE None]]

Grid_rows(g) == Len(g)

Grid_columns(g) == Len(g[1])

\* Grid.__getitem__
Grid_getitem(g, r, c) ==
    IF r < 0 \/ r >= Grid_rows(g) THEN None
    ELSE IF c < 0 \/ c >= Grid_columns(g) THEN None
    ELSE g[r + 1][c + 1]

\* Grid.each_row, as the list of the rows it yields
each_row(g) == g

\* each_cell without `if col is not None`
each_cell_unfiltered(g) == Flatten(g)

\* Grid.each_cell, as the list of what it yields
each_cell(g) == SelectSeq(Flatten(g), IsCell)

Cells(g) ==
    LET slots == Flatten(g) IN {x \in {slots[i] : i \in 1..Len(slots)} : IsCell(x)}

\* Grid._configure_cells: every cell's N, E, S, W
configure_cells(g) ==
    [cell \in Cells(g) |->
        <<Grid_getitem(g, cell[1] - 1, cell[2]),
          Grid_getitem(g, cell[1], cell[2] + 1),
          Grid_getitem(g, cell[1] + 1, cell[2]),
          Grid_getitem(g, cell[1], cell[2] - 1)>>]

N(cell) == nbr[cell][1]

E(cell) == nbr[cell][2]

S(cell) == nbr[cell][3]

W(cell) == nbr[cell][4]

\* Cell.neighbors
neighbors(cell) == SelectSeq(nbr[cell], IsCell)

\* Cell.has_links
has_links(lk, cell) == Cardinality(lk[cell]) # 0

\* Cell.neighbors_with_links and Cell.neighbors_without_links
neighbors_with_links(lk, cell) ==
    LET HasLinks(x) == has_links(lk, x) IN SelectSeq(neighbors(cell), HasLinks)

neighbors_without_links(lk, cell) ==
    LET NoLinks(x) == ~has_links(lk, x) IN SelectSeq(neighbors(cell), NoLinks)

\* the values random.choice(L) can return
Choices(L) == {L[i] : i \in 1..Len(L)}

\* Cell.link leaving out the link back
Cell_link_one_way(lk, cell, other, bidirectional) ==
    [lk EXCEPT ![cell] = @ \cup {other}]

\* Cell.link assigning the set in place of adding to it
Cell_link_replacing(lk, cell, other, bidirectional) ==
    LET l1 == [lk EXCEPT ![cell] = {other}]
    IN  IF bidirectional THEN [l1 EXCEPT ![other] = {cell}] ELSE l1

\* Cell.link: the links afterwards
Cell_link(lk, cell, other, bidirectional) ==
    LET l1 == [lk EXCEPT ![cell] = @ \cup {other}]
    IN  IF bidirectional THEN [l1 EXCEPT ![other] = @ \cup {cell}] ELSE l1

\* Cell.unlink: the links afterwards and the exception set.remove raises
Cell_unlink(lk, cell, other, bidirectional) ==
    IF other \notin lk[cell] THEN [links |-> lk, exc |-> "KeyError"]
    ELSE LET l1 == [lk EXCEPT ![cell] = @ \ {other}]
         IN  IF ~bidirectional THEN [links |-> l1, exc |-> NoExc]
             ELSE IF cell \notin l1[other] THEN [links |-> l1, exc |-> "KeyError"]
             ELSE [links |-> [l1 EXCEPT ![other] = @ \ {cell}], exc |-> NoExc]

\* Cell.linked_to
linked_to(lk, cell, other) == other \in lk[cell]

\* Grid.size and MaskedGrid.size
size == IF mask = None THEN Grid_rows(grid) * Grid_columns(grid) ELSE Mask_count(mask)

\* Grid.random_cell and MaskedGrid.random_cell: the cells it can return; the
\* masked one raises ValueError when no location of the mask is on
random_cell_raises == mask # None /\ Mask_count(mask) = 0

random_cell ==
    IF mask = None THEN {Flatten(grid)[i] : i \in 1..Len(Flatten(grid))}
    ELSE {Grid_getitem(grid, r, c) :
              <<r, c>> \in {rc \in (0..Mask_rows(mask) - 1) \X (0..Mask_columns(mask) - 1) :
                                Mask_getitem(mask, rc[1], rc[2])}}

(***************************************************************************)
(* The generators (algorithm.py).  A generator is called on the grid (pc   *)
(* "idle"), runs one iteration of its loop per step (pc "loop", or "pick"  *)
(* and "walk" for the two loops of wilsons) and returns (pc "done") or     *)
(* raises (pc "error", the exception in ret).                              *)
(***************************************************************************)
\* what no generator step changes
Frame == UNCHANGED <<mask, op, rle, pos, s, dstat, grid, nbr>>

Call(name, locals) ==
    /\ pc = "idle"
    /\ algo' = name
    /\ pc' = "loop"
    /\ loc' = locals
    /\ UNCHANGED <<links, ret>>
    /\ Frame

Fail(exc) ==
    /\ pc' = "error"
    /\ ret' = Raised(exc)
    /\ UNCHANGED <<links, algo, loc>>
    /\ Frame

GeneratorReturn ==
    /\ pc' = "done"
    /\ UNCHANGED <<links, algo, loc, ret>>
    /\ Frame

\* binary_tree with S in the place of E
binary_tree_neighbors_NS(cell) == SelectSeq(<<N(cell), S(cell)>>, IsCell)

\* list(filter(None, (cell.N, cell.E)))
binary_tree_neighbors(cell) == SelectSeq(<<N(cell), E(cell)>>, IsCell)

\* binary_tree: i is the place in grid.each_cell of the next cell
binary_tree_call == Call("binary_tree", [i |-> 1])

binary_tree_step ==
    /\ algo = "binary_tree" /\ pc = "loop"
    /\ loc.i <= Len(each_cell(grid))
    /\ LET cell == each_cell(grid)[loc.i]
       IN  IF binary_tree_neighbors(cell) # <<>>
           THEN \E chosen \in Choices(binary_tree_neighbors(cell)) :
                    links' = Cell_link(links, cell, chosen, TRUE)
           ELSE UNCHANGED links
    /\ loc' = [loc EXCEPT !.i = @ + 1]
    /\ UNCHANGED <<algo, pc, ret>>
    /\ Frame

binary_tree_return ==
    /\ algo = "binary_tree" /\ pc = "loop"
    /\ loc.i > Len(each_cell(grid))
    /\ GeneratorReturn

\* sidewinder: (row, col) is the slot of grid.each_row the inner loop is at;
\* over rows without columns the inner loop has no iteration and the outer
\* loop ends
sidewinder_call ==
    Call("sidewinder",
         [row |-> IF Grid_columns(grid) = 0 THEN Len(each_row(grid)) + 1 ELSE 1,
          col |-> 1, run |-> <<>>])

\* the slot after (row, col), and the run there: run.clear() opens the next
\* row; after the last row no row opens and run stays as the body left it
sidewinder_next(run) ==
    IF loc.col < Len(each_row(grid)[loc.row])
    THEN [row |-> loc.row, col |-> loc.col + 1, run |-> run]
    ELSE [row |-> loc.row + 1, col |-> 1,
          run |-> IF loc.row < Len(each_row(grid)) THEN <<>> ELSE run]

\* sidewinder closing runs in the top row as in the rows below it
sidewinder_step_open_E ==
    /\ algo = "sidewinder" /\ pc = "loop"
    /\ loc.row <= Len(each_row(grid))
    /\ LET cell == each_row(grid)[loc.row][loc.col]
           run  == Append(loc.run, cell)
       IN  IF cell = None
           THEN \* cell.E of None
                Fail("AttributeError")
           ELSE LET at_E     == E(cell) = None
                    not_at_N == N(cell) # None
                IN  /\ \E coin \in 0..1 :
                           IF at_E \/ coin = 1
                           THEN \E member \in Choices(run) :
                                    /\ links' = IF N(member) # None
                                                THEN Cell_link(links, member, N(member), TRUE)
                                                ELSE links
                                    /\ loc' = sidewinder_next(<<>>)
                           ELSE /\ links' = Cell_link(links, cell, E(cell), TRUE)
                                /\ loc' = sidewinder_next(run)
                    /\ UNCHANGED <<algo, pc, ret>>
                    /\ Frame

sidewinder_step ==
    /\ algo = "sidewinder" /\ pc = "loop"
    /\ loc.row <= Len(each_row(grid))
    /\ LET cell == each_row(grid)[loc.row][loc.col]
           run  == Append(loc.run, cell)
       IN  IF cell = None
           THEN \* cell.E of None
                Fail("AttributeError")
           ELSE LET at_E     == E(cell) = None
                    not_at_N == N(cell) # None
                IN  /\ \E coin \in 0..1 :
                           IF at_E \/ (not_at_N /\ coin = 1)
                           THEN \E member \in Choices(run) :
                                    /\ links' = IF N(member) # None
                                                THEN Cell_link(links, member, N(member), TRUE)
                                                ELSE links
                                    /\ loc' = sidewinder_next(<<>>)
                           ELSE /\ links' = Cell_link(links, cell, E(cell), TRUE)
                                /\ loc' = sidewinder_next(run)
                    /\ UNCHANGED <<algo, pc, ret>>
                    /\ Frame

sidewinder_return ==
    /\ algo = "sidewinder" /\ pc = "loop"
    /\ loc.row > Len(each_row(grid))
    /\ GeneratorReturn

\* aldous_broder
aldous_broder_call ==
    /\ pc = "idle"
    /\ algo' = "aldous_broder"
    /\ IF random_cell_raises
       THEN /\ pc' = "error"
            /\ ret' = Raised("ValueError")
            /\ UNCHANGED loc
       ELSE /\ pc' = "loop"
            /\ \E cell \in random_cell : loc' = [cell |-> cell, unvisited |-> size - 1]
            /\ UNCHANGED ret
    /\ UNCHANGED links
    /\ Frame

\* aldous_broder counting every move, not only the moves that link
aldous_broder_step_counting ==
    /\ algo = "aldous_broder" /\ pc = "loop"
    /\ loc.unvisited # 0
    /\ IF neighbors(loc.cell) = <<>>
       THEN Fail("IndexError")
       ELSE /\ \E neighbor \in Choices(neighbors(loc.cell)) :
                   IF links[neighbor] = {}
                   THEN /\ links' = Cell_link(links, loc.cell, neighbor, TRUE)
                        /\ loc' = [cell |-> neighbor, unvisited |-> loc.unvisited - 1]
                   ELSE /\ loc' = [cell |-> neighbor, unvisited |-> loc.unvisited - 1]
                        /\ UNCHANGED links
            /\ UNCHANGED <<algo, pc, ret>>
            /\ Frame

\* aldous_broder linking every cell it steps onto that the cell it leaves
\* is not linked to
aldous_broder_step_relinking ==
    /\ algo = "aldous_broder" /\ pc = "loop"
    /\ loc.unvisited # 0
    /\ IF neighbors(loc.cell) = <<>>
       THEN Fail("IndexError")
       ELSE /\ \E neighbor \in Choices(neighbors(loc.cell)) :
                   IF neighbor \notin links[loc.cell]
                   THEN /\ links' = Cell_link(links, loc.cell, neighbor, TRUE)
                        /\ loc' = [cell |-> neighbor, unvisited |-> loc.unvisited - 1]
                   ELSE /\ loc' = [loc EXCEPT !.cell = neighbor]
                        /\ UNCHANGED links
            /\ UNCHANGED <<algo, pc, ret>>
            /\ Frame

\* aldous_broder without `unvisited -= 1`
aldous_broder_step_not_counting ==
    /\ algo = "aldous_broder" /\ pc = "loop"
    /\ loc.unvisited # 0
    /\ IF neighbors(loc.cell) = <<>>
       THEN Fail("IndexError")
       ELSE /\ \E neighbor \in Choices(neighbors(loc.cell)) :
                   IF links[neighbor] = {}
                   THEN /\ links' = Cell_link(links, loc.cell, neighbor, TRUE)
                        /\ loc' = [loc EXCEPT !.cell = neighbor]
                   ELSE /\ loc' = [loc EXCEPT !.cell = neighbor]
                        /\ UNCHANGED links
            /\ UNCHANGED <<algo, pc, ret>>
            /\ Frame

aldous_broder_step ==
    /\ algo = "aldous_broder" /\ pc = "loop"
    /\ loc.unvisited # 0
    /\ IF neighbors(loc.cell) = <<>>
       THEN \* random.choice of an empty list
            Fail("IndexError")
       ELSE /\ \E neighbor \in Choices(neighbors(loc.cell)) :
                   IF links[neighbor] = {}
                   THEN /\ links' = Cell_link(links, loc.cell, neighbor, TRUE)
                        /\ loc' = [cell |-> neighbor, unvisited |-> loc.unvisited - 1]
                   ELSE /\ loc' = [loc EXCEPT !.cell = neighbor]
                        /\ UNCHANGED links
            /\ UNCHANGED <<algo, pc, ret>>
            /\ Frame

aldous_broder_return ==
    /\ algo = "aldous_broder" /\ pc = "loop"
    /\ loc.unvisited = 0
    /\ GeneratorReturn

\* del L[i], for the Python index i
list_del(L, i) == SubSeq(L, 1, i) \o SubSeq(L, i + 2, Len(L))

\* L.index(x), as a Python index
list_index(L, x) == (CHOOSE i \in 1..Len(L) : L[i] = x /\ \A j \in 1..i - 1 : L[j] # x) - 1

\* L.remove(x), for an x that is in L
list_remove(L, x) == list_del(L, list_index(L, x))

\* wilsons
wilsons_call ==
    /\ pc = "idle"
    /\ algo' = "wilsons"
    /\ LET unvisited == each_cell(grid)
       IN  IF unvisited = <<>>
           THEN \* remove_random: randint(0, -1)
                /\ pc' = "error"
                /\ ret' = Raised("ValueError")
                /\ UNCHANGED loc
           ELSE /\ pc' = "pick"
                /\ \E i \in 0..Len(unvisited) - 1 :
                       loc' = [unvisited |-> list_del(unvisited, i), cell |-> None,
                               path |-> <<>>]
                /\ UNCHANGED ret
    /\ UNCHANGED links
    /\ Frame

\* while unvisited: cell = choice(unvisited); path = [cell]
wilsons_pick ==
    /\ algo = "wilsons" /\ pc = "pick"
    /\ loc.unvisited # <<>>
    /\ \E cell \in Choices(loc.unvisited) :
           loc' = [loc EXCEPT !.cell = cell, !.path = <<cell>>]
    /\ pc' = "walk"
    /\ UNCHANGED <<links, algo, ret>>
    /\ Frame

\* the walk without `if cell in path`: no loop is erased
wilsons_walk_keeping_loops ==
    /\ algo = "wilsons" /\ pc = "walk"
    /\ loc.cell \in Choices(loc.unvisited)
    /\ IF neighbors(loc.cell) = <<>>
       THEN Fail("IndexError")
       ELSE /\ \E cell \in Choices(neighbors(loc.cell)) :
                   loc' = [loc EXCEPT
                              !.cell = cell,
                              !.path = Append(loc.path, cell)]
            /\ UNCHANGED <<links, algo, pc, ret>>
            /\ Frame

\* one iteration of `while cell in unvisited`
wilsons_walk ==
    /\ algo = "wilsons" /\ pc = "walk"
    /\ loc.cell \in Choices(loc.unvisited)
    /\ IF neighbors(loc.cell) = <<>>
       THEN Fail("IndexError")
       ELSE /\ \E cell \in Choices(neighbors(loc.cell)) :
                   loc' = [loc EXCEPT
                              !.cell = cell,
                              !.path = IF cell \in Choices(loc.path)
                                       THEN SubSeq(loc.path, 1, list_index(loc.path, cell) + 1)
                                       ELSE Append(loc.path, cell)]
            /\ UNCHANGED <<links, algo, pc, ret>>
            /\ Frame

\* the walk has left unvisited: `for i in range(len(path) - 1)` links the
\* path and removes its cells from unvisited
wilsons_commit ==
    /\ algo = "wilsons" /\ pc = "walk"
    /\ loc.cell \notin Choices(loc.unvisited)
    /\ LET path == loc.path
           RECURSIVE For(_, _, _)
           For(i, lk, unvisited) ==
               IF i > Len(path) - 1 THEN [links |-> lk, unvisited |-> unvisited, exc |-> NoExc]
               ELSE IF path[i] \notin Choices(unvisited)
                    THEN [links |-> Cell_link(lk, path[i], path[i + 1], TRUE),
                          unvisited |-> unvisited, exc |-> "ValueError"]
                    ELSE For(i + 1, Cell_link(lk, path[i], path[i + 1], TRUE),
                             list_remove(unvisited, path[i]))
           done == For(1, links, loc.unvisited)
       IN  /\ links' = done.links
           /\ loc' = [loc EXCEPT !.unvisited = done.unvisited]
           /\ pc' = IF done.exc = NoExc THEN "pick" ELSE "error"
           /\ ret' = IF done.exc = NoExc THEN ret ELSE Raised(done.exc)
    /\ UNCHANGED algo
    /\ Frame

wilsons_return ==
    /\ algo = "wilsons" /\ pc = "pick"
    /\ loc.unvisited = <<>>
    /\ GeneratorReturn

\* hunt_and_kill
hunt_and_kill_call ==
    /\ pc = "idle"
    /\ algo' = "hunt_and_kill"
    /\ IF random_cell_raises
       THEN /\ pc' = "error"
            /\ ret' = Raised("ValueError")
            /\ UNCHANGED loc
       ELSE /\ pc' = "loop"
            /\ \E cell \in random_cell : loc' = [current |-> cell]
            /\ UNCHANGED ret
    /\ UNCHANGED links
    /\ Frame

\* the hunt stopping at a cell that has links already
hunted_linked ==
    LET cells == each_cell(grid)
        Found(i) == neighbors_with_links(links, cells[i]) # <<>>
    IN  IF \E i \in 1..Len(cells) : Found(i)
        THEN cells[CHOOSE i \in 1..Len(cells) : Found(i) /\ \A j \in 1..i - 1 : ~Found(j)]
        ELSE None

\* the hunt going on to the last cell without links that has a linked
\* neighbour
hunted_last ==
    LET cells == each_cell(grid)
        Found(i) == ~has_links(links, cells[i]) /\ neighbors_with_links(links, cells[i]) # <<>>
    IN  IF \E i \in 1..Len(cells) : Found(i)
        THEN cells[CHOOSE i \in 1..Len(cells) : Found(i) /\ \A j \in i + 1..Len(cells) : ~Found(j)]
        ELSE None

\* the cell the hunt stops at: the first of each_cell without links and with
\* a neighbour that has links; None when there is none
hunted ==
    LET cells == each_cell(grid)
        Found(i) == ~has_links(links, cells[i]) /\ neighbors_with_links(links, cells[i]) # <<>>
    IN  IF \E i \in 1..Len(cells) : Found(i)
        THEN cells[CHOOSE i \in 1..Len(cells) : Found(i) /\ \A j \in 1..i - 1 : ~Found(j)]
        ELSE None

hunt_and_kill_kill ==
    /\ algo = "hunt_and_kill" /\ pc = "loop"
    /\ loc.current # None
    /\ neighbors_without_links(links, loc.current) # <<>>
    /\ \E neighbor \in Choices(neighbors_without_links(links, loc.current)) :
           /\ links' = Cell_link(links, loc.current, neighbor, TRUE)
           /\ loc' = [current |-> neighbor]
    /\ UNCHANGED <<algo, pc, ret>>
    /\ Frame

hunt_and_kill_hunt ==
    /\ algo = "hunt_and_kill" /\ pc = "loop"
    /\ loc.current # None
    /\ neighbors_without_links(links, loc.current) = <<>>
    /\ IF hunted = None
       THEN /\ loc' = [current |-> None]
            /\ UNCHANGED links
       ELSE \E neighbor \in Choices(neighbors_with_links(links, hunted)) :
                /\ links' = Cell_link(links, hunted, neighbor, TRUE)
                /\ loc' = [current |-> hunted]
    /\ UNCHANGED <<algo, pc, ret>>
    /\ Frame

hunt_and_kill_return ==
    /\ algo = "hunt_and_kill" /\ pc = "loop"
    /\ loc.current = None
    /\ GeneratorReturn

\* recursive_backtracker(grid, start): start is None or a cell of the grid
recursive_backtracker_call ==
    /\ pc = "idle"
    /\ algo' = "recursive_backtracker"
    /\ \E start \in Cells(grid) \cup {None} :
           IF start = None /\ random_cell_raises
           THEN /\ pc' = "error"
                /\ ret' = Raised("ValueError")
                /\ UNCHANGED loc
           ELSE /\ pc' = "loop"
                /\ \E cell \in (IF start # None THEN {start} ELSE random_cell) :
                       loc' = [stack |-> <<cell>>]
                /\ UNCHANGED ret
    /\ UNCHANGED links
    /\ Frame

top == loc.stack[Len(loc.stack)]

\* the push taking any neighbour top is not linked to yet
recursive_backtracker_push_any ==
    /\ algo = "recursive_backtracker" /\ pc = "loop"
    /\ loc.stack # <<>>
    /\ neighbors_without_links(links, top) # <<>>
    /\ \E neighbor \in Choices(neighbors(top)) \ links[top] :
           /\ links' = Cell_link(links, top, neighbor, TRUE)
           /\ loc' = [stack |-> Append(loc.stack, neighbor)]
    /\ UNCHANGED <<algo, pc, ret>>
    /\ Frame

recursive_backtracker_push ==
    /\ algo = "recursive_backtracker" /\ pc = "loop"
    /\ loc.stack # <<>>
    /\ neighbors_without_links(links, top) # <<>>
    /\ \E neighbor \in Choices(neighbors_without_links(links, top)) :
           /\ links' = Cell_link(links, top, neighbor, TRUE)
           /\ loc' = [stack |-> Append(loc.stack, neighbor)]
    /\ UNCHANGED <<algo, pc, ret>>
    /\ Frame

recursive_backtracker_pop ==
    /\ algo = "recursive_backtracker" /\ pc = "loop"
    /\ loc.stack # <<>>
    /\ neighbors_without_links(links, top) = <<>>
    /\ loc' = [stack |-> SubSeq(loc.stack, 1, Len(loc.stack) - 1)]
    /\ UNCHANGED <<links, algo, pc, ret>>
    /\ Frame

recursive_backtracker_return ==
    /\ algo = "recursive_backtracker" /\ pc = "loop"
    /\ loc.stack = <<>>
    /\ GeneratorReturn

(***************************************************************************)
(* The grid specifications.  Spec builds a grid, plain or from a mask, and *)
(* calls one generator on it.                                              *)
(***************************************************************************)
\* the dimensions Grid(rows, columns) is built with: at least one row and
\* one column (amaze.py 49-52), of at most `cells` cells
Shapes(cells) == {d \in (1..cells) \X (1..cells) : d[1] * d[2] <= cells}

NoMaskCall ==
    /\ op = NoOp
    /\ ret = Returned(None)
    /\ rle = <<>>
    /\ pos = 0
    /\ s = NewState
    /\ dstat = "idle"

\* Grid.__init__ and MaskedGrid.__init__
Built(m, rows, columns) ==
    /\ mask = m
    /\ grid = IF m = None THEN Grid_prepare_grid(rows, columns)
              ELSE MaskedGrid_prepare_grid(m, rows, columns)
    /\ nbr = configure_cells(grid)
    /\ links = [cell \in Cells(grid) |-> {}]
    /\ algo = ""
    /\ pc = "idle"
    /\ loc = <<>>
    /\ NoMaskCall

Init ==
    \/ \E d \in Shapes(MaxCells) : Built(None, d[1], d[2])
    \/ \E m \in GridMasks(MaxCells) : Built(m, Mask_rows(m), Mask_columns(m))

Next ==
    \/ binary_tree_call \/ binary_tree_step \/ binary_tree_return
    \/ sidewinder_call \/ sidewinder_step \/ sidewinder_return
    \/ aldous_broder_call \/ aldous_broder_step \/ aldous_broder_return
    \/ wilsons_call \/ wilsons_pick \/ wilsons_walk \/ wilsons_commit \/ wilsons_return
    \/ hunt_and_kill_call \/ hunt_and_kill_kill \/ hunt_and_kill_hunt
    \/ hunt_and_kill_return
    \/ recursive_backtracker_call \/ recursive_backtracker_push
    \/ recursive_backtracker_pop \/ recursive_backtracker_return

Spec == Init /\ [][Next]_vars

\* SpecLinks: besides calling generators, the caller links and unlinks any
\* two cells of the grid (bidirectional left at its default, True) before,
\* between and after the generator calls (the program is single-threaded, so
\* no call runs inside a generator's loop), and calls a generator again on the
\* grid a generator has returned.  Finished is the caller taking the grid
\* back: the generator's locals are gone, algo still names it.
link_call(cell, other) ==
    /\ pc = "idle"
    /\ links' = Cell_link(links, cell, other, TRUE)
    /\ UNCHANGED <<algo, pc, loc, ret>>
    /\ Frame

unlink_call(cell, other) ==
    /\ pc = "idle"
    /\ LET un == Cell_unlink(links, cell, other, TRUE)
       IN  /\ links' = un.links
           /\ ret' = IF un.exc = NoExc THEN ret ELSE Raised(un.exc)
    /\ UNCHANGED <<algo, pc, loc>>
    /\ Frame

Finished ==
    /\ pc \in {"done", "error"}
    /\ pc' = "idle"
    /\ loc' = <<>>
    /\ ret' = Returned(None)
    /\ UNCHANGED <<links, algo>>
    /\ Frame

InitLinks ==
    \/ \E d \in Shapes(MaxLinkCells) : Built(None, d[1], d[2])
    \/ \E m \in GridMasks(MaxLinkCells) : Built(m, Mask_rows(m), Mask_columns(m))

NextLinks ==
    \/ Next
    \/ \E cell \in Cells(grid) : \E other \in Cells(grid) \ {cell} : link_call(cell, other)
    \/ \E cell \in Cells(grid) : \E other \in Cells(grid) \ {cell} : unlink_call(cell, other)
    \/ Finished

SpecLinks == InitLinks /\ [][NextLinks]_vars

\* SpecTree calls binary_tree on the plain grids of up to MaxTreeCells cells
\* and on the 5 x 5 grid of the specification's scenario
ScenarioShape == <<5, 5>>

InitTree ==
    \E d \in Shapes(MaxTreeCells) \cup {ScenarioShape} : Built(None, d[1], d[2])

NextTree == binary_tree_call \/ binary_tree_step \/ binary_tree_return

SpecTree == InitTree /\ [][NextTree]_vars

(***************************************************************************)
(* Claims about the generators and the links.                              *)
(***************************************************************************)
\* the cells a walk from start reaches, succ[c] being the cells one step
\* from c
Reachable(start, succ) ==
    LET RECURSIVE R(_, _)
        R(seen, frontier) ==
            IF frontier = {} THEN seen
            ELSE LET new == UNION {succ[c] : c \in frontier} \ seen
                 IN  R(seen \cup new, new)
    IN R({start}, {start})

\* the present cells form one component of the lattice
LatticeConnected ==
    LET cells == Cells(grid)
        root  == CHOOSE c \in cells : TRUE
    IN  cells # {} =>
            /\ Reachable(root, [c \in cells |-> Choices(neighbors(c))]) = cells
            /\ Reachable(root, [c \in cells |->
                                   {u \in cells : c \in Choices(neighbors(u))}]) = cells

\* every present cell is reachable from every other through links: one cell
\* reaches every cell, and every cell reaches it
LinkConnected ==
    LET cells == Cells(grid)
        root  == CHOOSE c \in cells : TRUE
    IN  cells # {} =>
            /\ Reachable(root, links) = cells
            /\ Reachable(root, [c \in cells |-> {u \in cells : c \in links[u]}]) = cells

\* the links, each counted once whichever of its ends holds it
UndirectedLinks == UNION {{{u, v} : v \in links[u]} : u \in Cells(grid)}

SpanningTree ==
    /\ Cardinality(UndirectedLinks) = Cardinality(Cells(grid)) - 1
    /\ LinkConnected

\* C1: whichever of the six generators is called on a grid without links,
\* plain or built from a mask, whose N >= 1 present cells form one component
\* of the lattice, the grid it returns has exactly N - 1 undirected links and
\* every present cell is reachable from every other through links.
GeneratorsSpan ==
    pc = "done" /\ Cells(grid) # {} /\ LatticeConnected => SpanningTree

\* C2: on every plain grid of R rows and C columns without links, binary_tree
\* returns with exactly R * C - 1 undirected links and all R * C cells in one
\* link-connected component, whatever it chooses; on the 5 x 5 grid, 24 links
\* and one component of 25 cells.
BinaryTreeSpans ==
    algo = "binary_tree" /\ pc = "done" /\ mask = None =>
        /\ Cardinality(UndirectedLinks) = Grid_rows(grid) * Grid_columns(grid) - 1
        /\ Cardinality(Cells(grid)) = Grid_rows(grid) * Grid_columns(grid)
        /\ LinkConnected
        /\ Grid_rows(grid) = 5 /\ Grid_columns(grid) = 5 =>
               /\ Cardinality(UndirectedLinks) = 24
               /\ Cardinality(Reachable(<<0, 0>>, links)) = 25

\* binary_tree has returned the 5 x 5 grid, having linked one cell of the
\* second row to the north and another to the east
BinaryTreeWitness ==
    /\ algo = "binary_tree"
    /\ pc = "done"
    /\ Grid_rows(grid) = 5
    /\ Grid_columns(grid) = 5
    /\ linked_to(links, <<1, 0>>, <<0, 0>>)
    /\ linked_to(links, <<1, 1>>, <<1, 2>>)

\* C3: link symmetry.  In every state a freshly built grid reaches by
\* generator steps and bidirectional link and unlink calls, u.linked_to(v)
\* holds exactly when v.linked_to(u) holds, for all cells u and v.
LinkSymmetry ==
    \A u \in Cells(grid), v \in Cells(grid) :
        linked_to(links, u, v) <=> linked_to(links, v, u)

\* binary_tree has run on a plain grid, which leaves no cell without links,
\* and now two cells that are no lattice neighbours are linked (by a link
\* call) and a cell that has a neighbour has no links (by unlink calls)
LinkSymmetryWitness ==
    /\ pc = "idle"
    /\ algo = "binary_tree"
    /\ mask = None
    /\ \E u \in Cells(grid), v \in Cells(grid) :
           u # v /\ v \notin Choices(neighbors(u)) /\ linked_to(links, u, v)
    /\ \E u \in Cells(grid) : links[u] = {} /\ neighbors(u) # <<>>

(***************************************************************************)
(* Distances (grid.py 10-43) and Cell.distances (grid.py 135-150).  A      *)
(* Distances is a dict: the sequence of its <<cell, distance>> items in    *)
(* insertion order.  The iteration order of a cell's _links set is not     *)
(* fixed by the language: `for linked in cell.links` takes the links in    *)
(* any order.  pc is "bfs" while Cell.distances runs, "mapped" when it has *)
(* returned the map loc.distances, "path" while path_to walks, and         *)
(* "path_done", "maxed" or "error" after path_to or max.                   *)
(***************************************************************************)
\* Distances(root): self[root] = 0
Distances(root) == <<<<root, 0>>>>

\* cell in distances
Distances_contains(dm, cell) == \E i \in 1..Len(dm) : dm[i][1] = cell

\* distances[cell], for a cell in distances
Distances_getitem(dm, cell) == dm[CHOOSE i \in 1..Len(dm) : dm[i][1] = cell][2]

\* distances[cell] = d: a new key goes last, an old one keeps its place
Distances_setitem(dm, cell, d) ==
    IF Distances_contains(dm, cell)
    THEN [i \in 1..Len(dm) |-> IF dm[i][1] = cell THEN <<cell, d>> ELSE dm[i]]
    ELSE Append(dm, <<cell, d>>)

\* Distances.cells
Distances_cells(dm) == {dm[i][1] : i \in 1..Len(dm)}

\* the orders a for loop can take the members of a set in
Orders(set) ==
    {order \in [1..Cardinality(set) -> set] :
         \A i \in 1..Cardinality(set), j \in 1..Cardinality(set) :
             order[i] = order[j] => i = j}

\* root.distances is entered: distances = Distances(self), frontier = [self],
\* and the first pass of the while loop starts with next_frontier = []
distances_call(root) ==
    /\ pc = "idle"
    /\ algo' = "distances"
    /\ pc' = "bfs"
    /\ loc' = [root |-> root, distances |-> Distances(root), frontier |-> <<root>>,
               next_frontier |-> <<>>, i |-> 1]
    /\ UNCHANGED <<links, ret>>
    /\ Frame

\* the for loop over cell.links giving a linked cell the distance of cell
distances_links_same(cell, order, dm, next_frontier) ==
    LET RECURSIVE For(_, _, _)
        For(k, d, nf) ==
            IF k > Len(order) THEN [distances |-> d, next_frontier |-> nf]
            ELSE IF Distances_contains(d, order[k]) THEN For(k + 1, d, nf)
            ELSE For(k + 1,
                     Distances_setitem(d, order[k], Distances_getitem(d, cell)),
                     Append(nf, order[k]))
    IN For(1, dm, next_frontier)

\* the for loop over cell.links counting two for a link
distances_links_by_two(cell, order, dm, next_frontier) ==
    LET RECURSIVE For(_, _, _)
        For(k, d, nf) ==
            IF k > Len(order) THEN [distances |-> d, next_frontier |-> nf]
            ELSE IF Distances_contains(d, order[k]) THEN For(k + 1, d, nf)
            ELSE For(k + 1,
                     Distances_setitem(d, order[k], Distances_getitem(d, cell) + 2),
                     Append(nf, order[k]))
    IN For(1, dm, next_frontier)

\* the for loop over cell.links having taken the links in `order`: the
\* distances and the next_frontier after it.  A linked cell that is in
\* distances is passed over (continue).
distances_links(cell, order, dm, next_frontier) ==
    LET RECURSIVE For(_, _, _)
        For(k, d, nf) ==
            IF k > Len(order) THEN [distances |-> d, next_frontier |-> nf]
            ELSE IF Distances_contains(d, order[k]) THEN For(k + 1, d, nf)
            ELSE For(k + 1,
                     Distances_setitem(d, order[k], Distances_getitem(d, cell) + 1),
                     Append(nf, order[k]))
    IN For(1, dm, next_frontier)

\* one iteration of `for cell in frontier`, cell being frontier[i - 1]
distances_cell ==
    /\ algo = "distances" /\ pc = "bfs"
    /\ loc.i <= Len(loc.frontier)
    /\ \E order \in Orders(links[loc.frontier[loc.i]]) :
           LET after == distances_links(loc.frontier[loc.i], order, loc.distances,
                                        loc.next_frontier)
           IN  loc' = [loc EXCEPT !.distances = after.distances,
                                  !.next_frontier = after.next_frontier,
                                  !.i = @ + 1]
    /\ UNCHANGED <<links, algo, pc, ret>>
    /\ Frame

\* the for loop over the frontier is done: frontier = next_frontier, and the
\* next pass of `while frontier`, if any, starts with next_frontier = []
distances_level ==
    /\ algo = "distances" /\ pc = "bfs"
    /\ loc.frontier # <<>>
    /\ loc.i > Len(loc.frontier)
    /\ loc' = [loc EXCEPT !.frontier = loc.next_frontier, !.next_frontier = <<>>, !.i = 1]
    /\ UNCHANGED <<links, algo, pc, ret>>
    /\ Frame

\* `while frontier` ends: return distances
distances_return ==
    /\ algo = "distances" /\ pc = "bfs"
    /\ loc.frontier = <<>>
    /\ pc' = "mapped"
    /\ ret' = Returned(loc.distances)
    /\ UNCHANGED <<links, algo, loc>>
    /\ Frame

\* path_to returning the root alone for a goal that is not in the map
path_to_call_lenient(goal) ==
    /\ algo = "distances" /\ pc = "mapped"
    /\ algo' = "path_to"
    /\ IF Distances_contains(loc.distances, goal)
       THEN /\ pc' = "path"
            /\ loc' = [root |-> loc.root, distances |-> loc.distances, goal |-> goal,
                       current |-> goal,
                       breadcrumbs |-> Distances_setitem(
                           Distances(loc.root), goal,
                           Distances_getitem(loc.distances, goal))]
            /\ UNCHANGED ret
       ELSE /\ pc' = "path_done"
            /\ loc' = [root |-> loc.root, distances |-> loc.distances, goal |-> goal,
                       current |-> goal, breadcrumbs |-> Distances(loc.root)]
            /\ ret' = Returned(Distances(loc.root))
    /\ UNCHANGED links
    /\ Frame

\* distances.path_to(goal) is entered on the map Cell.distances returned:
\* breadcrumbs = Distances(self.root); breadcrumbs[current] = self[current],
\* where self[current] raises KeyError for a goal that is not in the map
path_to_call(goal) ==
    /\ algo = "distances" /\ pc = "mapped"
    /\ algo' = "path_to"
    /\ IF Distances_contains(loc.distances, goal)
       THEN /\ pc' = "path"
            /\ loc' = [root |-> loc.root, distances |-> loc.distances, goal |-> goal,
                       current |-> goal,
                       breadcrumbs |-> Distances_setitem(
                           Distances(loc.root), goal,
                           Distances_getitem(loc.distances, goal))]
            /\ UNCHANGED ret
       ELSE /\ pc' = "error"
            /\ loc' = [root |-> loc.root, distances |-> loc.distances, goal |-> goal,
                       current |-> goal, breadcrumbs |-> Distances(loc.root)]
            /\ ret' = Raised("KeyError")
    /\ UNCHANGED links
    /\ Frame

\* path_to stopping at a link that is no farther, with <= in the place of <
path_to_closer_or_level ==
    {neighbor \in links[loc.current] :
         /\ Distances_contains(loc.distances, neighbor)
         /\ Distances_getitem(loc.distances, neighbor)
                <= Distances_getitem(loc.distances, loc.current)}

\* the links of current that path_to's for loop can stop at, and those whose
\* lookup self[neighbor] raises KeyError
path_to_closer ==
    {neighbor \in links[loc.current] :
         /\ Distances_contains(loc.distances, neighbor)
         /\ Distances_getitem(loc.distances, neighbor)
                < Distances_getitem(loc.distances, loc.current)}

path_to_unmapped ==
    {neighbor \in links[loc.current] : ~Distances_contains(loc.distances, neighbor)}

\* one pass of `while current != root`: the for loop takes the links of
\* current in any order and breaks at the first one with a smaller distance;
\* when there is none the pass changes nothing and the loop goes on
path_to_step ==
    /\ algo = "path_to" /\ pc = "path"
    /\ loc.current # loc.root
    /\ \/ \E neighbor \in path_to_closer :
              /\ loc' = [loc EXCEPT
                            !.breadcrumbs = Distances_setitem(
                                @, neighbor, Distances_getitem(loc.distances, neighbor)),
                            !.current = neighbor]
              /\ UNCHANGED <<links, algo, pc, ret>>
              /\ Frame
       \/ /\ path_to_unmapped # {}
          /\ Fail("KeyError")
       \/ /\ path_to_closer = {}
          /\ path_to_unmapped = {}
          /\ UNCHANGED vars

\* return breadcrumbs
path_to_return ==
    /\ algo = "path_to" /\ pc = "path"
    /\ loc.current = loc.root
    /\ pc' = "path_done"
    /\ ret' = Returned(loc.breadcrumbs)
    /\ UNCHANGED <<links, algo, loc>>
    /\ Frame

\* Distances.max with >= in the place of >
Distances_max_last(dm, root) ==
    LET RECURSIVE For(_, _, _)
        For(i, max_cell, max_distance) ==
            IF i > Len(dm) THEN <<max_cell, max_distance>>
            ELSE IF dm[i][2] >= max_distance THEN For(i + 1, dm[i][1], dm[i][2])
            ELSE For(i + 1, max_cell, max_distance)
    IN For(1, root, 0)

\* Distances.max: `for cell in self` takes the keys in insertion order
Distances_max(dm, root) ==
    LET RECURSIVE For(_, _, _)
        For(i, max_cell, max_distance) ==
            IF i > Len(dm) THEN <<max_cell, max_distance>>
            ELSE IF dm[i][2] > max_distance THEN For(i + 1, dm[i][1], dm[i][2])
            ELSE For(i + 1, max_cell, max_distance)
    IN For(1, root, 0)

\* max of the map Cell.distances returned, or of the map path_to returned
max_call ==
    /\ \/ algo = "distances" /\ pc = "mapped"
       \/ algo = "path_to" /\ pc = "path_done"
    /\ algo' = "max"
    /\ pc' = "maxed"
    /\ LET self == IF pc = "mapped" THEN loc.distances ELSE loc.breadcrumbs
       IN  /\ loc' = [root |-> loc.root, self |-> self]
           /\ ret' = Returned(Distances_max(self, loc.root))
    /\ UNCHANGED links
    /\ Frame

(***************************************************************************)
(* SpecDist: a plain grid is built; the caller calls a generator on it     *)
(* while it has no links, links lattice neighbours (on the smallest grids, *)
(* any two cells), then asks a cell for its distances and the map for a    *)
(* path or for its max.  The 3 x 3 grid of the specification's scenario    *)
(* starts linked as the row-major snake and is only measured.              *)
(***************************************************************************)
\* (0,0)-(0,1)-(0,2)-(1,2)-(1,1)-(1,0)-(2,0)-(2,1)-(2,2)
SnakePath ==
    <<<<0, 0>>, <<0, 1>>, <<0, 2>>, <<1, 2>>, <<1, 1>>, <<1, 0>>, <<2, 0>>, <<2, 1>>,
      <<2, 2>>>>

\* the links after path[i].link(path[i + 1]) for every i
LinkedAlong(path, lk) ==
    LET RECURSIVE For(_, _)
        For(i, l) == IF i > Len(path) - 1 THEN l
                     ELSE For(i + 1, Cell_link(l, path[i], path[i + 1], TRUE))
    IN For(1, lk)

SnakeShape == <<3, 3>>

InitDist ==
    \/ \E d \in Shapes(MaxLatticeCells) : Built(None, d[1], d[2])
    \/ /\ mask = None
       /\ grid = Grid_prepare_grid(SnakeShape[1], SnakeShape[2])
       /\ nbr = configure_cells(grid)
       /\ links = LinkedAlong(SnakePath, [cell \in Cells(grid) |-> {}])
       /\ algo = ""
       /\ pc = "idle"
       /\ loc = <<>>
       /\ NoMaskCall

\* the grids any two cells of which the caller links
Small == Cardinality(Cells(grid)) <= MaxDistCells

\* the grids the caller calls generators on and links lattice neighbours of
Medium == Cardinality(Cells(grid)) <= MaxLatticeCells

\* a generator is called on a grid without links
Unlinked == \A cell \in Cells(grid) : links[cell] = {}

NextDist ==
    \/ Medium /\ (pc = "idle" => Unlinked) /\ Next
    \/ Small /\ \E cell \in Cells(grid) : \E other \in Cells(grid) \ {cell} :
                    link_call(cell, other)
    \/ Medium /\ \E cell \in Cells(grid) : \E other \in Choices(neighbors(cell)) :
                     link_call(cell, other)
    \/ Finished
    \/ \E root \in Cells(grid) : distances_call(root)
    \/ distances_cell
    \/ distances_level
    \/ distances_return
    \/ \E goal \in Cells(grid) : path_to_call(goal)
    \/ path_to_step
    \/ path_to_return
    \/ max_call

SpecDist == InitDist /\ [][NextDist]_vars

(***************************************************************************)
(* Claims about the distance maps.                                         *)
(***************************************************************************)
\* the cells at most k links away from root
Within(root, k) ==
    LET RECURSIVE Ball(_)
        Ball(n) == IF n = 0 THEN {root}
                   ELSE Ball(n - 1) \cup UNION {links[c] : c \in Ball(n - 1)}
    IN Ball(k)

\* the least number of links on a link path from root to a cell it reaches
MinLinks(root, cell) ==
    CHOOSE k \in 0..Cardinality(Cells(grid)) :
        /\ cell \in Within(root, k)
        /\ k > 0 => cell \notin Within(root, k - 1)

\* the least of a non-empty set of numbers
Least(numbers) == CHOOSE n \in numbers : \A m \in numbers : n <= m

\* the links are those of the row-major snake on the 3 x 3 grid
IsSnake ==
    /\ Grid_rows(grid) = 3
    /\ Grid_columns(grid) = 3
    /\ links = LinkedAlong(SnakePath, [cell \in Cells(grid) |-> {}])

\* C11: the map root.distances returns holds exactly the cells reachable
\* from root through links, each once, maps root to 0 and every other cell to
\* the least number of links on a link path from root to it, which is 1 + the
\* least distance among its linked neighbours in the map; on the 3 x 3 grid
\* linked as the row-major snake and rooted at (0,0), cell (2,2) gets 8.
DistancesShortest ==
    algo = "distances" /\ pc = "mapped" =>
        LET dm == loc.distances
            d(cell) == Distances_getitem(dm, cell)
        IN  /\ ret = Returned(dm)
            /\ Distances_cells(dm) = Reachable(loc.root, links)
            /\ Len(dm) = Cardinality(Distances_cells(dm))
            /\ d(loc.root) = 0
            /\ \A cell \in Distances_cells(dm) \ {loc.root} :
                   /\ d(cell) = MinLinks(loc.root, cell)
                   /\ d(cell) = 1 + Least({d(n) : n \in links[cell] \cap Distances_cells(dm)})
            /\ IsSnake /\ loc.root = <<0, 0>> => d(<<2, 2>>) = 8

\* the distances of (0,0) on the snake have been returned, (2,2) at 8
DistancesWitness ==
    /\ algo = "distances"
    /\ pc = "mapped"
    /\ IsSnake
    /\ loc.root = <<0, 0>>
    /\ Distances_contains(loc.distances, <<2, 2>>)
    /\ Distances_getitem(loc.distances, <<2, 2>>) = 8

\* |a - b|
AbsDiff(a, b) == IF a >= b THEN a - b ELSE b - a

\* every link joins two lattice neighbours, as the links of the generators do
LatticeLinks == \A cell \in Cells(grid) : links[cell] \subseteq Choices(neighbors(cell))

\* C12 as stated: in the map root.distances returns, over links made by a
\* generator or by bidirectional link calls, any two cells of the map that
\* are linked to each other have distances that differ by exactly 1.
BFSMonotone ==
    algo = "distances" /\ pc = "mapped" =>
        \A u \in Distances_cells(loc.distances), v \in Distances_cells(loc.distances) :
            linked_to(links, u, v) /\ linked_to(links, v, u) =>
                AbsDiff(Distances_getitem(loc.distances, u),
                        Distances_getitem(loc.distances, v)) = 1

\* C12 amended: the same, over links made by a generator or by bidirectional
\* link calls between lattice neighbours.
BFSMonotoneOnLattice ==
    algo = "distances" /\ pc = "mapped" /\ LatticeLinks =>
        \A u \in Distances_cells(loc.distances), v \in Distances_cells(loc.distances) :
            linked_to(links, u, v) /\ linked_to(links, v, u) =>
                AbsDiff(Distances_getitem(loc.distances, u),
                        Distances_getitem(loc.distances, v)) = 1

\* the distances of (0,0) on the 2 x 2 grid with its four lattice links, which
\* form a cycle, have been returned
BFSMonotoneWitness ==
    /\ algo = "distances"
    /\ pc = "mapped"
    /\ Grid_rows(grid) = 2
    /\ Grid_columns(grid) = 2
    /\ LatticeLinks
    /\ \A cell \in Cells(grid) : links[cell] = Choices(neighbors(cell))
    /\ loc.root = <<0, 0>>
    /\ Distances_getitem(loc.distances, <<1, 1>>) = 2

\* C13: on the map root.distances returned over symmetric links, path_to of a
\* goal in the map raises nothing, every pass of its loop moves to a linked
\* cell of smaller distance (so it terminates), and the map it returns holds
\* goal and root, exactly one cell for each distance 0..distance(goal), each
\* with its distance of the original map, the cells at consecutive distances
\* linked to each other.
PathToContract ==
    algo = "path_to" /\ pc # "idle" /\ Distances_contains(loc.distances, loc.goal) =>
        LET dm == loc.distances
            bc == loc.breadcrumbs
            far == Distances_getitem(dm, loc.goal)
            At(k) == {cell \in Distances_cells(bc) : Distances_getitem(bc, cell) = k}
        IN  /\ pc \in {"path", "path_done"}
            /\ pc = "path" /\ loc.current # loc.root =>
                   /\ path_to_closer # {}
                   /\ path_to_unmapped = {}
                   /\ Distances_getitem(dm, loc.current) > 0
            /\ pc = "path_done" =>
                   /\ ret = Returned(bc)
                   /\ loc.goal \in Distances_cells(bc)
                   /\ loc.root \in Distances_cells(bc)
                   /\ Len(bc) = far + 1
                   /\ Cardinality(Distances_cells(bc)) = far + 1
                   /\ \A k \in 0..far : Cardinality(At(k)) = 1
                   /\ \A cell \in Distances_cells(bc) :
                          /\ Distances_contains(dm, cell)
                          /\ Distances_getitem(bc, cell) = Distances_getitem(dm, cell)
                   /\ \A k \in 1..far : \A u \in At(k), v \in At(k - 1) :
                          linked_to(links, u, v) /\ linked_to(links, v, u)

\* path_to has returned the path of a goal two links from root that had two
\* linked cells of smaller distance to choose from
PathToWitness ==
    /\ algo = "path_to"
    /\ pc = "path_done"
    /\ Distances_getitem(loc.distances, loc.goal) = 2
    /\ Cardinality({n \in links[loc.goal] : Distances_getitem(loc.distances, n) = 1}) = 2
    /\ Len(loc.breadcrumbs) = 3

\* C14 as stated: for a goal that root does not reach through links, path_to
\* never terminates; it returns no result and raises no error.
PathToUnreachableLoops ==
    algo = "path_to" /\ pc # "idle" /\ loc.goal \notin Reachable(loc.root, links) =>
        pc = "path"

\* C14 amended: for a goal that root does not reach through links, path_to
\* raises KeyError before its walk starts (the goal is no key of the map); it
\* returns no result.
PathToUnreachableRaises ==
    algo = "path_to" /\ pc # "idle" /\ loc.goal \notin Reachable(loc.root, links) =>
        /\ pc = "error"
        /\ ret = Raised("KeyError")
        /\ loc.current = loc.goal
        /\ loc.breadcrumbs = Distances(loc.root)

\* path_to has raised for a goal that has links, none of them to a cell the
\* root reaches, the root having links too
PathToUnreachableWitness ==
    /\ algo = "path_to"
    /\ pc = "error"
    /\ loc.goal \notin Reachable(loc.root, links)
    /\ links[loc.goal] # {}
    /\ links[loc.root] # {}

\* C15: max of a distance map returns (cell, d), d the largest distance in the
\* map and cell the first cell in insertion order that has it; of a map that
\* holds the root alone it returns (root, 0).
MaxIsFirstFarthest ==
    algo = "max" /\ pc = "maxed" =>
        LET self  == loc.self
            far   == CHOOSE d \in {self[i][2] : i \in 1..Len(self)} :
                         \A i \in 1..Len(self) : self[i][2] <= d
            first == CHOOSE i \in 1..Len(self) :
                         self[i][2] = far /\ \A j \in 1..i - 1 : self[j][2] # far
        IN  /\ ret = Returned(<<self[first][1], far>>)
            /\ Len(self) = 1 => ret = Returned(<<loc.root, 0>>)

\* max has returned the first of two cells that are both farthest, the last
\* cell of the map being one of them
MaxWitness ==
    /\ algo = "max"
    /\ pc = "maxed"
    /\ Len(loc.self) >= 3
    /\ \E i \in 1..Len(loc.self) - 1 :
           /\ ret = Returned(loc.self[i])
           /\ loc.self[Len(loc.self)][2] = loc.self[i][2]

(***************************************************************************)
(* Grid.dead_ends (grid.py 239-246).  SpecEnds calls a generator on a grid *)
(* as Spec does and then asks the grid it returned for its dead ends, as   *)
(* dead-end-counts.py does (pc "counted", the list in ret).                *)
(***************************************************************************)
\* the cells that have links, with 1 <= in the place of 1 ==
dead_ends_linked(lk) ==
    LET Linked(cell) == 1 <= Cardinality(lk[cell]) IN SelectSeq(each_cell(grid), Linked)

\* Grid.dead_ends
dead_ends(lk) ==
    LET OneLink(cell) == 1 = Cardinality(lk[cell]) IN SelectSeq(each_cell(grid), OneLink)

\* len(grid.dead_ends) on the grid a generator returned
dead_ends_call ==
    /\ pc = "done"
    /\ pc' = "counted"
    /\ ret' = Returned(dead_ends(links))
    /\ UNCHANGED <<links, algo, loc>>
    /\ Frame

NextEnds == Next \/ dead_ends_call

SpecEnds == Init /\ [][NextEnds]_vars

\* C16: the dead ends of the grid a generator returned are the cells with
\* exactly one link; there are between 0 and size of them, and on a plain
\* grid of one row or one column of N cells exactly 2 when N > 1 and 0 when
\* N = 1.
DeadEndsCount ==
    pc = "counted" =>
        LET ends == ret.value[1]
            n    == Grid_rows(grid) * Grid_columns(grid)
        IN  /\ Choices(ends) = {cell \in Cells(grid) : Cardinality(links[cell]) = 1}
            /\ Len(ends) = Cardinality(Choices(ends))
            /\ 0 <= Len(ends) /\ Len(ends) <= size
            /\ mask = None /\ (Grid_rows(grid) = 1 \/ Grid_columns(grid) = 1) =>
                   Len(ends) = IF n > 1 THEN 2 ELSE 0

\* the two dead ends of a corridor of at least three cells have been counted
DeadEndsWitness ==
    /\ pc = "counted"
    /\ mask = None
    /\ Grid_rows(grid) = 1 \/ Grid_columns(grid) = 1
    /\ Grid_rows(grid) * Grid_columns(grid) >= 3
    /\ Len(ret.value[1]) = 2

(***************************************************************************)
(* SpecHunt calls hunt_and_kill on masked grids.  The program is one       *)
(* thread that runs the generator it has called: while a step of the       *)
(* generator is possible one is taken, which is the weak fairness of       *)
(* NextHunt.                                                               *)
(***************************************************************************)
InitHunt == \E m \in GridMasks(MaxHuntCells) : Built(m, Mask_rows(m), Mask_columns(m))

NextHunt ==
    \/ hunt_and_kill_call
    \/ hunt_and_kill_kill
    \/ hunt_and_kill_hunt
    \/ hunt_and_kill_return

SpecHunt == InitHunt /\ [][NextHunt]_vars /\ WF_vars(NextHunt)

\* the present cells a walk over lattice neighbours reaches from cell
Component(cell) == Reachable(cell, [c \in Cells(grid) |-> Choices(neighbors(c))])

\* the present cells form two or more components of the lattice
Disconnected ==
    /\ Cells(grid) # {}
    /\ Component(CHOOSE cell \in Cells(grid) : TRUE) # Cells(grid)

\* C17 as stated: on a masked grid whose present cells form two or more
\* components of the lattice, no execution of hunt_and_kill reaches its return.
HuntNeverReturns ==
    mask # None /\ algo = "hunt_and_kill" /\ Disconnected => pc # "done"

\* the links are a spanning tree of one component and no other cell has links
OneComponentLinked ==
    \E start \in Cells(grid) :
        /\ \A cell \in Component(start) : links[cell] \subseteq Component(start)
        /\ Reachable(start, links) = Component(start)
        /\ Cardinality(UndirectedLinks) = Cardinality(Component(start)) - 1
        /\ \A cell \in Cells(grid) \ Component(start) : links[cell] = {}

\* C17 amended: on such a grid every execution of hunt_and_kill reaches its
\* return, and the grid it returns has the cells of one component linked into
\* a spanning tree of that component and no links on any other cell.
HuntReturnsOneComponent ==
    /\ [](mask # None /\ algo = "hunt_and_kill" /\ Disconnected =>
              /\ pc # "error"
              /\ pc = "done" => OneComponentLinked)
    /\ (mask # None /\ Disconnected /\ pc = "idle") ~> (pc = "done")

\* hunt_and_kill has returned a grid of two components of two or more cells,
\* one linked and one without links
HuntWitness ==
    /\ algo = "hunt_and_kill"
    /\ pc = "done"
    /\ Disconnected
    /\ \E u \in Cells(grid), v \in Cells(grid) :
           /\ Cardinality(Component(u)) >= 2
           /\ Cardinality(Component(v)) >= 2
           /\ links[u] # {}
           /\ links[v] = {}

(***************************************************************************)
(* SpecWalk calls aldous_broder or wilsons, the two generators that walk   *)
(* at random, on masked grids.                                             *)
(***************************************************************************)
InitWalk == \E m \in GridMasks(MaxWalkCells) : Built(m, Mask_rows(m), Mask_columns(m))

NextWalk ==
    \/ aldous_broder_call \/ aldous_broder_step \/ aldous_broder_return
    \/ wilsons_call \/ wilsons_pick \/ wilsons_walk \/ wilsons_commit \/ wilsons_return

SpecWalk == InitWalk /\ [][NextWalk]_vars

\* aldous_broder or wilsons was called on a masked grid whose present cells
\* form two or more components of the lattice
WalkOnDisconnected ==
    mask # None /\ algo \in {"aldous_broder", "wilsons"} /\ Disconnected

\* C18 as stated: such a call never returns; its loop condition stays true
\* forever and no error ends the run.
WalksNeverEnd ==
    WalkOnDisconnected =>
        /\ pc \notin {"done", "error"}
        /\ algo = "aldous_broder" => loc.unvisited # 0
        /\ algo = "wilsons" => loc.unvisited # <<>>

\* C18 amended: such a call never returns; its loop condition stays true for
\* as long as the run lasts and a next step is always possible, unless the
\* walk stands on a cell without lattice neighbours, where random_neighbor
\* raises IndexError and ends the run.
WalksNeverReturn ==
    WalkOnDisconnected =>
        /\ pc # "done"
        /\ algo = "aldous_broder" => loc.unvisited # 0
        /\ algo = "wilsons" => loc.unvisited # <<>>
        /\ pc = "error" => /\ ret = Raised("IndexError")
                           /\ neighbors(loc.cell) = <<>>
        /\ pc # "error" => ENABLED NextWalk

\* aldous_broder walks a component of two or more cells that it has linked
\* completely, cells of another component still to link
WalkWitness ==
    /\ WalkOnDisconnected
    /\ algo = "aldous_broder"
    /\ pc = "loop"
    /\ Cardinality(Component(loc.cell)) >= 2
    /\ \A cell \in Component(loc.cell) : links[cell] # {}
    /\ loc.unvisited = Cardinality(Cells(grid) \ Component(loc.cell))

(***************************************************************************)
(* SpecMasked: a MaskedGrid is built from a mask and keeps it (self._mask  *)
(* is the caller's Mask object, grid.py 451-453); the caller then sets     *)
(* locations of that mask and asks the grid for its size and for a random  *)
(* cell.  op names the last call, ret holds what it returned or raised.    *)
(***************************************************************************)
InitMasked == \E m \in GridMasks(MaxOpCells) : Built(m, Mask_rows(m), Mask_columns(m))

\* grid.size
size_call ==
    /\ pc = "idle"
    /\ op' = [name |-> "size", args |-> <<>>, before |-> mask]
    /\ ret' = Returned(size)
    /\ UNCHANGED <<mask, rle, pos, s, dstat>>
    /\ UNCHANGED gridVars

\* grid.random_cell
random_cell_call ==
    /\ pc = "idle"
    /\ op' = [name |-> "random_cell", args |-> <<>>, before |-> mask]
    /\ IF random_cell_raises
       THEN ret' = Raised("ValueError")
       ELSE \E cell \in random_cell : ret' = Returned(cell)
    /\ UNCHANGED <<mask, rle, pos, s, dstat>>
    /\ UNCHANGED gridVars

NextMasked ==
    \/ \E rc \in Indexes(mask), is_on \in BOOLEAN : Set(rc[1], rc[2], is_on)
    \/ size_call
    \/ random_cell_call

SpecMasked == InitMasked /\ [][NextMasked]_vars

\* C19: for a grid built from a mask, in every state after construction,
\* later set calls on that mask included, size is the number of cells
\* each_cell yields and the on-count of the mask, and random_cell returns a
\* present cell.
MaskedGridCounts ==
    /\ op.name = "size" =>
           /\ ret = Returned(Len(each_cell(grid)))
           /\ ret = Returned(Mask_count(mask))
    /\ op.name = "random_cell" /\ ret.kind = "return" => ret.value[1] \in Cells(grid)

(***************************************************************************)
(* SpecRows: a grid is built, plain or from a mask, and the caller reads   *)
(* its each_cell and each_row to the end, any number of times.  op names   *)
(* the last read and ret holds the list of what it yielded.                *)
(***************************************************************************)
\* list(grid.each_cell)
each_cell_call ==
    /\ pc = "idle"
    /\ op' = [name |-> "each_cell", args |-> <<>>, before |-> mask]
    /\ ret' = Returned(each_cell(grid))
    /\ UNCHANGED <<mask, rle, pos, s, dstat>>
    /\ UNCHANGED gridVars

\* list(grid.each_row)
each_row_call ==
    /\ pc = "idle"
    /\ op' = [name |-> "each_row", args |-> <<>>, before |-> mask]
    /\ ret' = Returned(each_row(grid))
    /\ UNCHANGED <<mask, rle, pos, s, dstat>>
    /\ UNCHANGED gridVars

NextRows == each_cell_call \/ each_row_call

SpecRows == Init /\ [][NextRows]_vars

\* the grid's locations that hold a cell: all of a plain grid, those the mask
\* has on of a masked one
Present ==
    {rc \in (0..Grid_rows(grid) - 1) \X (0..Grid_columns(grid) - 1) :
         mask = None \/ Mask_getitem(mask, rc[1], rc[2])}

\* location a comes before location b in row-major order
RowMajorBefore(a, b) == a[1] < b[1] \/ (a[1] = b[1] /\ a[2] < b[2])

\* what each_cell yielded: the present cells, each once, in row-major order,
\* and no empty slot
CellsInRowMajor(cells) ==
    /\ \A i \in 1..Len(cells) : cells[i] # None
    /\ Choices(cells) = Present
    /\ \A i \in 1..Len(cells), j \in 1..Len(cells) :
           i < j => RowMajorBefore(cells[i], cells[j])

\* C20 as stated: each_cell and each_row go through the grid in row-major
\* order and skip empty slots: no element of each_cell and no element of a
\* row of each_row is an empty slot, every present cell appears exactly once,
\* and a second read yields the same.
EachSkipsEmpty ==
    /\ op.name = "each_cell" => CellsInRowMajor(ret.value[1])
    /\ op.name = "each_row" =>
           /\ \A r \in 1..Len(ret.value[1]) : \A c \in 1..Len(ret.value[1][r]) :
                  ret.value[1][r][c] # None
           /\ CellsInRowMajor(Flatten(ret.value[1]))

\* C20 amended: each_cell yields the present cells, each once, in row-major
\* order and no empty slot; each_row yields every row in order, each row
\* holding one slot for each column in order, the cell of a present location
\* and the empty slot of a location the mask has off; a second read yields
\* the same.
EachReadsRowMajor ==
    /\ [](/\ op.name = "each_cell" => CellsInRowMajor(ret.value[1])
          /\ op.name = "each_row" =>
                 /\ Len(ret.value[1]) = Grid_rows(grid)
                 /\ \A r \in 1..Len(ret.value[1]) :
                        /\ Len(ret.value[1][r]) = Grid_columns(grid)
                        /\ \A c \in 1..Len(ret.value[1][r]) :
                               ret.value[1][r][c] =
                                   IF <<r - 1, c - 1>> \in Present THEN <<r - 1, c - 1>>
                                   ELSE None)
    /\ [][op.name = op'.name => ret' = ret]_vars

\* each_row has been read on a grid built from a mask with a location off
\* between two locations on in one row
EachRowWitness ==
    /\ op.name = "each_row"
    /\ mask # None
    /\ \E r \in 1..Len(ret.value[1]) : \E c \in 2..Len(ret.value[1][r]) - 1 :
           /\ ret.value[1][r][c] = None
           /\ ret.value[1][r][c - 1] # None
           /\ ret.value[1][r][c + 1] # None

(***************************************************************************)
(* SpecWire: the N, E, S, W setters (grid.py 60-94).  op names the last    *)
(* assignment: the cell, the slot (1 N, 2 E, 3 S, 4 W) and the value       *)
(* assigned.                                                               *)
(***************************************************************************)
\* at most MaxWireCells locations in a grid of SpecWire
MaxWireCells == 2
\* at most MaxSets neighbour slots differ from what construction left
MaxSets == 1

\* a setter without `if self._neighbors[k] is None`
Cell_set_always(nb, cell, k, value) == [nb EXCEPT ![cell][k] = value]

\* cell.N = value, cell.E = value, cell.S = value, cell.W = value
Cell_set(nb, cell, k, value) ==
    IF nb[cell][k] = None THEN [nb EXCEPT ![cell][k] = value] ELSE nb

set_call(cell, k, value) ==
    /\ pc = "idle"
    /\ nbr' = Cell_set(nbr, cell, k, value)
    /\ op' = [name |-> "set", args |-> <<cell, k, value>>, before |-> mask]
    /\ UNCHANGED <<mask, rle, pos, s, dstat, grid, links, algo, pc, loc, ret>>

\* the neighbour slots that no longer hold what _configure_cells put there
Rewired ==
    LET built == configure_cells(grid)
    IN  {ck \in Cells(grid) \X (1..4) : nbr[ck[1]][ck[2]] # built[ck[1]][ck[2]]}

\* the row of three cells, whose middle cell has an E and a W neighbour
WireShape == <<1, 3>>

InitWire ==
    \/ \E d \in Shapes(MaxWireCells) \cup {WireShape} : Built(None, d[1], d[2])
    \/ \E m \in GridMasks(MaxWireCells) \cup {m \in GridMasks(WireShape[1] * WireShape[2]) :
                                               Mask_rows(m) = WireShape[1]} :
           Built(m, Mask_rows(m), Mask_columns(m))

\* the caller assigns to neighbour slots of the grid it has built, calls one
\* generator on it and, having taken the grid back, links and unlinks cells
NextWire ==
    \/ /\ algo = ""
       /\ Cardinality(Rewired) < MaxSets
       /\ \E cell \in Cells(grid) : \E k \in 1..4 : \E value \in Cells(grid) \cup {None} :
              set_call(cell, k, value)
    \/ (pc = "idle" => algo = "") /\ Next
    \/ Finished
    \/ /\ algo # ""
       /\ \E cell \in Cells(grid) : \E other \in Cells(grid) \ {cell} : link_call(cell, other)
    \/ /\ algo # ""
       /\ \E cell \in Cells(grid) : \E other \in Cells(grid) \ {cell} : unlink_call(cell, other)

SpecWire == InitWire /\ [][NextWire]_vars

\* the present cell at (r, c), or the empty slot when (r, c) is out of range
\* or masked off
PresentAt(r, c) == IF <<r, c>> \in Present THEN <<r, c>> ELSE None

\* C21: after construction, and as long as no neighbour slot is assigned to,
\* the N, E, S, W of every present cell at (r, c) are the present cells at
\* (r-1, c), (r, c+1), (r+1, c), (r, c-1), or empty where that location is out
\* of range or masked off, so that c.E = d exactly when d.W = c and c.S = d
\* exactly when d.N = c; and no assignment, generator step, link or unlink call
\* changes a neighbour slot that holds a cell.
NeighboursWiredOnce ==
    /\ [](op.name # "set" =>
            /\ \A cell \in Present :
                   /\ N(cell) = PresentAt(cell[1] - 1, cell[2])
                   /\ E(cell) = PresentAt(cell[1], cell[2] + 1)
                   /\ S(cell) = PresentAt(cell[1] + 1, cell[2])
                   /\ W(cell) = PresentAt(cell[1], cell[2] - 1)
            /\ \A c \in Present, d \in Present :
                   /\ E(c) = d <=> W(d) = c
                   /\ S(c) = d <=> N(d) = c)
    /\ [][\A cell \in Cells(grid) : \A k \in 1..4 :
              nbr[cell][k] # None => nbr'[cell][k] = nbr[cell][k]]_vars

\* a setter has just been called with another value on a slot that holds a
\* cell, on a grid built from a mask with a location off
NeighboursWitness ==
    /\ op.name = "set"
    /\ mask # None
    /\ Mask_count(mask) < Mask_rows(mask) * Mask_columns(mask)
    /\ nbr[op.args[1]][op.args[2]] # None
    /\ nbr[op.args[1]][op.args[2]] # op.args[3]
    /\ Rewired = {}

(***************************************************************************)
(* Claims about what the generators change and how each of them proceeds.  *)
(***************************************************************************)
\* C22: a generator changes nothing but the links, and only adds links
\* between lattice neighbours: no step of any of the six generators changes
\* the cells, their rows and columns, their neighbour slots, the dimensions
\* of the grid or the mask, no step removes a link, and every link a step
\* adds joins a cell to one of its own N, E, S, W.
GeneratorsOnlyLink ==
    [][/\ grid' = grid
       /\ Cells(grid') = Cells(grid)
       /\ Grid_rows(grid') = Grid_rows(grid)
       /\ Grid_columns(grid') = Grid_columns(grid)
       /\ nbr' = nbr
       /\ mask' = mask
       /\ \A cell \in Cells(grid) :
              /\ links[cell] \subseteq links'[cell]
              /\ \A other \in links'[cell] \ links[cell] :
                     other \in {N(cell), E(cell), S(cell), W(cell)} \ {None}]_vars

\* wilsons has returned a grid built from a mask with a location off, having
\* linked at least four cells
GeneratorsOnlyLinkWitness ==
    /\ algo = "wilsons"
    /\ pc = "done"
    /\ mask # None
    /\ Mask_count(mask) < Mask_rows(mask) * Mask_columns(mask)
    /\ Cardinality(UndirectedLinks) >= 3

\* C23: on a grid with exactly one present cell, plain 1 x 1 or built from a
\* mask with a single location on, each of the six generators returns without
\* an error, never asks for a random neighbour of the isolated cell (the
\* IndexError of random.choice), and leaves the grid without links.
SingleCellReturns ==
    Cardinality(Cells(grid)) = 1 =>
        /\ pc # "error"
        /\ \A cell \in Cells(grid) : links[cell] = {}

(***************************************************************************)
(* SpecSide: sidewinder called on the plain grids of up to MaxSideCells    *)
(* cells.                                                                  *)
(***************************************************************************)
MaxSideCells == 16

InitSide == \E d \in Shapes(MaxSideCells) : Built(None, d[1], d[2])

NextSide == sidewinder_call \/ sidewinder_step \/ sidewinder_return

SpecSide == InitSide /\ [][NextSide]_vars

\* the cells of row r linked north
LinkedNorth(lk, cellsOfRun) == {cell \in cellsOfRun : N(cell) # None /\ linked_to(lk, cell, N(cell))}

\* the maximal groups of consecutive cells of row r (0-based) linked east, as
\* <<first column, last column>> pairs
EastGroups(r) ==
    LET C == Grid_columns(grid)
        East(c) == linked_to(links, <<r, c>>, <<r, c + 1>>)
    IN  {g \in (0..C - 1) \X (0..C - 1) :
            /\ g[1] <= g[2]
            /\ \A c \in g[1]..g[2] - 1 : East(c)
            /\ g[1] > 0 => ~linked_to(links, <<r, g[1] - 1>>, <<r, g[1]>>)
            /\ g[2] < C - 1 => ~East(g[2])}

\* C24: on every plain grid of R rows and C columns without links sidewinder
\* returns with exactly R * C - 1 links and one link-connected component:
\* every cell of the top row but the last is linked east, and in every lower
\* row each run (the consecutive cells closed together) is linked east
\* internally and has exactly one link to the row above.
SidewinderRuns ==
    /\ [](algo = "sidewinder" /\ mask = None =>
            /\ pc # "error"
            /\ pc = "done" =>
                   /\ Cardinality(UndirectedLinks) = Grid_rows(grid) * Grid_columns(grid) - 1
                   /\ LinkConnected
                   /\ \A c \in 0..Grid_columns(grid) - 2 :
                          linked_to(links, <<0, c>>, <<0, c + 1>>)
                   /\ LinkedNorth(links, {cell \in Cells(grid) : cell[1] = 0}) = {}
                   /\ \A r \in 1..Grid_rows(grid) - 1 : \A g \in EastGroups(r) :
                          Cardinality(LinkedNorth(links, {<<r, c>> : c \in g[1]..g[2]})) = 1)
    /\ [][algo = "sidewinder" /\ mask = None /\ pc = "loop" /\ pc' = "loop" =>
            LET cell == each_row(grid)[loc.row][loc.col]
                run  == Append(loc.run, cell)
            IN  IF loc'.run = <<>>
                THEN \* the step closed the run
                     /\ \A i \in 1..Len(run) :
                            run[i] = <<loc.row - 1, loc.col - 1 - (Len(run) - i)>>
                     /\ \A i \in 1..Len(run) - 1 : linked_to(links', run[i], run[i + 1])
                     /\ E(cell) # None => ~linked_to(links', cell, E(cell))
                     /\ W(run[1]) # None => ~linked_to(links', run[1], W(run[1]))
                     /\ Cardinality(LinkedNorth(links', Choices(run))) =
                            IF loc.row = 1 THEN 0 ELSE 1
                     /\ loc.row = 1 => loc.col = Grid_columns(grid)
                ELSE /\ linked_to(links', cell, E(cell))
                     /\ links'[cell] \subseteq {E(cell), W(cell)}]_vars

\* sidewinder has returned a grid of three rows whose second row was closed
\* as a run of two cells, linked north from its second cell, then a run of one
SidewinderWitness ==
    /\ algo = "sidewinder"
    /\ pc = "done"
    /\ Grid_rows(grid) = 3
    /\ Grid_columns(grid) = 3
    /\ EastGroups(1) = {<<0, 1>>, <<2, 2>>}
    /\ linked_to(links, <<1, 1>>, <<0, 1>>)
    /\ EastGroups(2) = {<<0, 2>>}

\* the cells that have links
Linked == {cell \in Cells(grid) : has_links(links, cell)}

\* the cells of `cells` and the links among them are one tree: every one is
\* reached from root through links, and there is one link fewer than cells
LinkTree(cells, root) ==
    /\ Reachable(root, links) = cells
    /\ Cardinality(UndirectedLinks) = Cardinality(cells) - 1

\* C25: in aldous_broder on a lattice-connected grid, at every iteration of
\* the loop the number of undirected links is size - 1 - unvisited, the
\* current cell and the cells that have links are one link-connected set
\* without cycles, a link is added only when the walk steps onto a cell
\* without links, and the function returns exactly when unvisited is 0.
AldousBroderLoop ==
    /\ [](algo = "aldous_broder" /\ Cells(grid) # {} /\ LatticeConnected =>
            /\ pc \in {"loop", "done"}
            /\ Cardinality(UndirectedLinks) = size - 1 - loc.unvisited
            /\ LinkTree(Linked \cup {loc.cell}, loc.cell)
            /\ pc = "done" => loc.unvisited = 0)
    /\ [][algo = "aldous_broder" /\ pc = "loop" /\ LatticeConnected =>
            /\ links' # links =>
                   /\ links[loc'.cell] = {}
                   /\ loc'.cell \in Choices(neighbors(loc.cell))
                   /\ links' = Cell_link(links, loc.cell, loc'.cell, TRUE)
            /\ loc.unvisited = 0 <=> pc' = "done"]_vars

\* the walk is at a cell with two links or more on a grid built from a mask
\* with a location off, and a cell is still to be visited
AldousBroderWitness ==
    /\ algo = "aldous_broder"
    /\ pc = "loop"
    /\ LatticeConnected
    /\ mask # None
    /\ Mask_count(mask) < Mask_rows(mask) * Mask_columns(mask)
    /\ loc.unvisited >= 1
    /\ Cardinality(links[loc.cell]) >= 2

\* the cells no longer in the unvisited list of wilsons
Visited == Cells(grid) \ Choices(loc.unvisited)

\* C26: in wilsons on a lattice-connected grid, at every iteration of its
\* loops the recorded path holds no cell twice, every cell of the path of the
\* walk under way but possibly the last is in the unvisited list, every cell
\* in the unvisited list has no links, the cells outside the unvisited list
\* are one link-connected set without cycles, and after each commit the
\* number of links is size - 1 - (length of the unvisited list).
WilsonsLoop ==
    algo = "wilsons" /\ Cells(grid) # {} /\ LatticeConnected =>
        /\ pc \in {"pick", "walk", "done"}
        /\ \A i \in 1..Len(loc.path), j \in 1..Len(loc.path) :
               i # j => loc.path[i] # loc.path[j]
        /\ pc = "walk" =>
               /\ loc.path # <<>>
               /\ loc.path[Len(loc.path)] = loc.cell
               /\ \A i \in 1..Len(loc.path) - 1 : loc.path[i] \in Choices(loc.unvisited)
        /\ \A cell \in Choices(loc.unvisited) : ~has_links(links, cell)
        /\ Visited # {}
        /\ LinkTree(Visited, CHOOSE cell \in Visited : TRUE)
        /\ Cardinality(UndirectedLinks) = size - 1 - Len(loc.unvisited)

\* a walk is under way with a path of three cells or more after an earlier
\* walk was committed, on a grid built from a mask with a location off
WilsonsWitness ==
    /\ algo = "wilsons"
    /\ pc = "walk"
    /\ LatticeConnected
    /\ mask # None
    /\ Mask_count(mask) < Mask_rows(mask) * Mask_columns(mask)
    /\ Len(loc.path) >= 3
    /\ Cardinality(UndirectedLinks) >= 2

(***************************************************************************)
(* SpecKill calls hunt_and_kill on plain and masked grids of up to         *)
(* MaxHuntCells locations, under the weak fairness of the running          *)
(* generator's steps.                                                      *)
(***************************************************************************)
InitKill ==
    \/ \E d \in Shapes(MaxHuntCells) : Built(None, d[1], d[2])
    \/ \E m \in GridMasks(MaxHuntCells) : Built(m, Mask_rows(m), Mask_columns(m))

SpecKill == InitKill /\ [][NextHunt]_vars /\ WF_vars(NextHunt)

\* the iterations of `while current` done so far: each one adds a link or
\* ends the loop by leaving current None
Iterations == Cardinality(UndirectedLinks) + IF loc.current = None THEN 1 ELSE 0

\* the cells a hunt can stop at: without links, and with a neighbour that
\* has links
Huntable == {cell \in Cells(grid) : links[cell] = {} /\
                \E n \in {N(cell), E(cell), S(cell), W(cell)} \ {None} : links[n] # {}}

\* C27: every execution of hunt_and_kill on a grid with a present cell ends
\* after at most size iterations of its outer loop, whatever is chosen; every
\* link it adds has an end that had no links before, so the links never form
\* a cycle; a hunt always picks the first cell in row-major order that has no
\* links and has a linked neighbour; and it returns exactly when a hunt finds
\* no such cell.
HuntAndKillEnds ==
    /\ [](algo = "hunt_and_kill" /\ Cells(grid) # {} =>
            /\ pc \in {"loop", "done"}
            /\ Iterations <= size
            /\ Linked # {} => LinkTree(Linked, CHOOSE cell \in Linked : TRUE)
            /\ pc = "done" => loc.current = None /\ Huntable = {})
    /\ [][algo = "hunt_and_kill" /\ pc = "loop" =>
            /\ pc' = "done" <=> loc.current = None
            /\ pc' = "loop" =>
                   /\ Iterations' = Iterations + 1
                   /\ \A cell \in Cells(grid) : \A other \in links'[cell] \ links[cell] :
                          links[cell] = {} \/ links[other] = {}
                   /\ neighbors_without_links(links, loc.current) = <<>> =>
                          IF Huntable = {}
                          THEN loc'.current = None /\ links' = links
                          ELSE /\ loc'.current \in Huntable
                               /\ \A cell \in Huntable \ {loc'.current} :
                                      RowMajorBefore(loc'.current, cell)
                               /\ \E n \in links'[loc'.current] : links[n] # {}]_vars
    /\ (algo = "hunt_and_kill" /\ pc = "loop") ~> (pc = "done")

\* hunt_and_kill has returned after size iterations a grid of six cells or
\* more in which two cells linked to each other have three links each
HuntAndKillWitness ==
    /\ algo = "hunt_and_kill"
    /\ pc = "done"
    /\ Iterations = size
    /\ size >= 6
    /\ \E cell \in Cells(grid) :
           /\ Cardinality(links[cell]) = 3
           /\ \E other \in links[cell] : Cardinality(links[other]) = 3

(***************************************************************************)
(* SpecBack calls recursive_backtracker, with a start cell or without, on  *)
(* plain and masked grids of up to MaxBackCells locations, under the weak  *)
(* fairness of the running generator's steps.                              *)
(***************************************************************************)
MaxBackCells == 8

InitBack ==
    \/ \E d \in Shapes(MaxBackCells) : Built(None, d[1], d[2])
    \/ \E m \in GridMasks(MaxBackCells) : Built(m, Mask_rows(m), Mask_columns(m))

NextBack ==
    \/ recursive_backtracker_call
    \/ recursive_backtracker_push
    \/ recursive_backtracker_pop
    \/ recursive_backtracker_return

SpecBack == InitBack /\ [][NextBack]_vars /\ WF_vars(NextBack)

\* the iterations of `while stack` done so far: a push for every link, and a
\* pop for every cell pushed (the start cell and one for every link) that is
\* not on the stack
BackIterations == 2 * Cardinality(UndirectedLinks) + 1 - Len(loc.stack)

\* C28: in recursive_backtracker started on a grid without links, at every
\* step the stack holds no cell twice and every two consecutive entries are
\* linked, so it is never deeper than size; every execution ends within
\* 2 * size - 1 iterations of the loop; and at return exactly the present
\* cells the lattice reaches from the start cell are joined into one
\* link-connected set without cycles.
BacktrackerStack ==
    /\ [](algo = "recursive_backtracker" /\ Cells(grid) # {} =>
            /\ pc \in {"loop", "done"}
            /\ \A i \in 1..Len(loc.stack), j \in 1..Len(loc.stack) :
                   i # j => loc.stack[i] # loc.stack[j]
            /\ \A i \in 1..Len(loc.stack) - 1 :
                   linked_to(links, loc.stack[i], loc.stack[i + 1])
            /\ Len(loc.stack) <= size
            /\ BackIterations <= 2 * size - 1
            /\ pc = "done" => loc.stack = <<>>
            \* the start cell is the last to be popped: the links are then
            \* those of the grid returned
            /\ Len(loc.stack) = 1 /\ neighbors_without_links(links, top) = <<>> =>
                   LinkTree(Component(loc.stack[1]), loc.stack[1]))
    /\ [][algo = "recursive_backtracker" /\ pc = "loop" =>
            /\ pc' = "done" <=> loc.stack = <<>>
            /\ pc' = "loop" => BackIterations' = BackIterations + 1
            /\ Len(loc'.stack) <= Len(loc.stack) => links' = links]_vars
    /\ (algo = "recursive_backtracker" /\ pc = "loop") ~> (pc = "done")

\* the stack is five cells deep after a pop and another push (there are more
\* links than the four along the stack), on a grid built from a mask with a
\* location off
BacktrackerWitness ==
    /\ algo = "recursive_backtracker"
    /\ pc = "loop"
    /\ mask # None
    /\ Mask_count(mask) < Mask_rows(mask) * Mask_columns(mask)
    /\ Len(loc.stack) = 5
    /\ Cardinality(UndirectedLinks) >= 5

(***************************************************************************)
(* SpecFair calls aldous_broder and wilsons on the lattice-connected plain *)
(* and masked grids of up to MaxFairCells locations.  The generator that   *)
(* was called keeps running (weak fairness of its steps), and random.choice*)
(* is fair: a cell it can return again and again, as the neighbour to step *)
(* to or as the cell to start a walk from, it returns in the end (strong   *)
(* fairness, for each cell, of the steps that choose it).                  *)
(***************************************************************************)
MaxFairCells == 4

InitFair ==
    /\ \/ \E d \in Shapes(MaxFairCells) : Built(None, d[1], d[2])
       \/ \E m \in GridMasks(MaxFairCells) : Built(m, Mask_rows(m), Mask_columns(m))
    /\ Cells(grid) # {}
    /\ LatticeConnected

\* the locations a grid of SpecFair can have
FairLocations ==
    {rc \in (0..MaxFairCells - 1) \X (0..MaxFairCells - 1) :
         (rc[1] + 1) * (rc[2] + 1) <= MaxFairCells}

\* random.choice returns cell: the neighbour a walk steps to, or the cell
\* wilsons starts a walk from
aldous_broder_choice(cell) == aldous_broder_step /\ loc'.cell = cell

wilsons_choice(cell) == (wilsons_walk \/ wilsons_pick) /\ loc'.cell = cell

FairChoices ==
    /\ WF_vars(NextWalk)
    /\ \A cell \in FairLocations :
           SF_vars(aldous_broder_choice(cell) \/ wilsons_choice(cell))

SpecFair == InitFair /\ [][NextWalk]_vars /\ FairChoices

\* C29: on a lattice-connected grid, when the random choices are fair,
\* aldous_broder and wilsons return in the end: no fair execution walks for
\* ever (and, the fairness being that of steps the generator can take, a
\* returning state stays reachable from every reachable state).
FairWalksReturn ==
    (algo \in {"aldous_broder", "wilsons"} /\ LatticeConnected /\ pc \in {"loop", "pick", "walk"})
        ~> (pc = "done")

\* aldous_broder has returned a grid of four cells that are not in one row
\* or column
FairWalksWitness ==
    /\ algo = "aldous_broder"
    /\ pc = "done"
    /\ LatticeConnected
    /\ Cardinality(Cells(grid)) = 4
    /\ Grid_rows(grid) = 2
    /\ Cardinality(UndirectedLinks) = 3

====
